---------------------------- MODULE Spec2Model ----------------------------
(***************************************************************************)
(* A model of the Recast voxel pipeline: the sparse heightfield and its     *)
(* merging insert (RecastRasterization.cpp), the compact heightfield        *)
(* builder (Recast.cpp), the region partitioners and their postprocessing   *)
(* (RecastRegion.cpp) and the pipeline driver (Sample_SoloMesh.cpp).        *)
(*                                                                         *)
(* C arrays are modelled as functions over 0..n-1 so that the indices of    *)
(* the model are the indices of the code.  A column's linked list of spans  *)
(* is modelled as the sequence of its spans from the head on.  The work     *)
(* arrays local to the region code are sequences (element i at i + 1).     *)
(***************************************************************************)
EXTENDS Integers, Sequences, FiniteSets, Bags, TLC

VARIABLES
    hf,      \* rcHeightfield: [width, height, spans : column -> chain]
    cfg,     \* the build parameters of the run (rcConfig and call arguments)
    chf,     \* rcCompactHeightfield, or NoChf before it is built
    pc,      \* position of the run in its sequence of calls
    ret,     \* value returned by the last call ("none" before any call)
    log,     \* the set of error messages logged to the rcContext
    added,   \* the bag of (smin, smax, area) spans inserted by rcAddSpan
    preReg,  \* srcReg as the partitioner hands it to the postprocessing
    regTable,\* the postprocessing's region table before ID compaction
    ub,      \* the undefined behaviours the run has gone through
    floodId,\* regionId of a running rcBuildRegions (0 outside one)
    levels,  \* the passes of the level loop of rcBuildRegions: the level of
             \* each and the spans floodRegion unlabelled in it, each with the
             \* flood's label r and the conflicting label ar
    locals,  \* the locals of a partitioner that is inside one of its loops
             \* (<<>> outside), with the number of passes the loop has made
    stages   \* the pipeline stages handleBuild has completed, in order

vars == <<hf, cfg, chf, pc, ret, log, added, preReg, regTable, ub, floodId, levels, locals,
          stages>>

---------------------------------------------------------------------------
(* Program constants (Recast.h).                                           *)

RC_SPAN_HEIGHT_BITS == 13
RC_SPAN_MAX_HEIGHT == 8191
RC_NULL_AREA == 0
RC_WALKABLE_AREA == 63
RC_NOT_CONNECTED == 63
RC_BORDER_REG == 32768
RC_NULL_NEI == 65535
MAX_HEIGHT == 65535
MAX_LAYERS == 62

---------------------------------------------------------------------------
(* Bounds of the model.                                                    *)

\* rcAddSpan is called with heights 0..MaxSmallHeight and RC_SPAN_MAX_HEIGHT.
MaxSmallHeight == 2
\* At most MaxAdds spans are inserted into the column.
MaxAdds == 3
\* flagMergeThreshold ranges over 0..MaxThreshold.
MaxThreshold == 1

---------------------------------------------------------------------------
(* Small helpers (Recast.h: rcMin, rcMax, rcAbs, rcClamp).                  *)

rcMin(a, b) == IF a < b THEN a ELSE b
rcMax(a, b) == IF a > b THEN a ELSE b
rcAbs(a) == IF a < 0 THEN -a ELSE a
rcClamp(v, lo, hi) == IF v < lo THEN lo ELSE (IF v > hi THEN hi ELSE v)

\* Assignment to a bit field of RC_SPAN_HEIGHT_BITS bits (rcSpan::smin, smax).
SpanBits(v) == v % (2 ^ RC_SPAN_HEIGHT_BITS)

\* An array of n copies of v, indexed 0..n-1.
ArrayOf(n, v) == [i \in 0..(n - 1) |-> v]

NoChf == [width |-> -1]

\* e, once v has been evaluated: the loops of the model hand their
\* accumulator to the next iteration as a value, as the code's loops do.
After(v, e) == IF v = v THEN e ELSE e

\* The value of the one-point function f. [x \in {v} |-> e] binds a local of
\* the code, assigned once, to the value v it is read with afterwards in e.
Only(f) == f[CHOOSE x \in DOMAIN f : TRUE]

\* A for loop over the spans or columns k..last of a field is written as the
\* loop over the first half of the range followed, on its result, by the loop
\* over the second half, and a while loop carries the number of iterations
\* left: the iterations run in the order of the code, and the depth of the
\* evaluation grows with the logarithm of the range.

---------------------------------------------------------------------------
(* Sparse heightfield: addSpan (RecastRasterization.cpp).                  *)

\* The walk of addSpan over one column.  `before` holds the spans already
\* passed (it ends with previousSpan), `rest` starts at currentSpan, `new`
\* is newSpan.  The result is the column after newSpan has been linked in.
RECURSIVE addSpanWalk(_, _, _, _)
\* Mutant: the walk stops at the first span it merges instead of scanning on.
addSpanWalkStopsAfterMerge(before, rest, new, thr) ==
    IF rest = <<>> THEN before \o <<new>>
    ELSE LET cur == Head(rest) IN
         IF cur.smin > new.smax
         THEN before \o <<new>> \o rest
         ELSE IF cur.smax < new.smin
              THEN addSpanWalk(Append(before, cur), Tail(rest), new, thr)
              ELSE LET smin1 == IF cur.smin < new.smin THEN cur.smin ELSE new.smin
                       smax1 == IF cur.smax > new.smax THEN cur.smax ELSE new.smax
                       area1 == IF rcAbs(smax1 - cur.smax) <= thr
                                THEN rcMax(new.area, cur.area)
                                ELSE new.area
                   IN before \o <<[smin |-> smin1, smax |-> smax1, area |-> area1]>>
                             \o Tail(rest)

\* Mutant: a span that starts where the new one ends counts as lying above it.
addSpanWalkBreaksOnTouch(before, rest, new, thr) ==
    IF rest = <<>> THEN before \o <<new>>
    ELSE LET cur == Head(rest) IN
         IF cur.smin >= new.smax
         THEN before \o <<new>> \o rest
         ELSE IF cur.smax < new.smin
              THEN addSpanWalk(Append(before, cur), Tail(rest), new, thr)
              ELSE LET smin1 == IF cur.smin < new.smin THEN cur.smin ELSE new.smin
                       smax1 == IF cur.smax > new.smax THEN cur.smax ELSE new.smax
                       area1 == IF rcAbs(smax1 - cur.smax) <= thr
                                THEN rcMax(new.area, cur.area)
                                ELSE new.area
                   IN addSpanWalk(before, Tail(rest),
                          [smin |-> smin1, smax |-> smax1, area |-> area1], thr)

addSpanWalk(before, rest, new, thr) ==
    IF rest = <<>> THEN before \o <<new>>
    ELSE LET cur == Head(rest) IN
         IF cur.smin > new.smax
         THEN before \o <<new>> \o rest
         ELSE IF cur.smax < new.smin
              THEN addSpanWalk(Append(before, cur), Tail(rest), new, thr)
              ELSE LET smin1 == IF cur.smin < new.smin THEN cur.smin ELSE new.smin
                       smax1 == IF cur.smax > new.smax THEN cur.smax ELSE new.smax
                       area1 == IF rcAbs(smax1 - cur.smax) <= thr
                                THEN rcMax(new.area, cur.area)
                                ELSE new.area
                   IN addSpanWalk(before, Tail(rest),
                          [smin |-> smin1, smax |-> smax1, area |-> area1], thr)

\* addSpan on the chain of one column.
addSpan(chain, min, max, areaID, flagMergeThreshold) ==
    addSpanWalk(<<>>, chain,
                [smin |-> SpanBits(min), smax |-> SpanBits(max), area |-> areaID],
                flagMergeThreshold)

\* rcCreateHeightfield: a grid of empty columns.
rcCreateHeightfield(sizeX, sizeZ) ==
    [width |-> sizeX, height |-> sizeZ, spans |-> ArrayOf(sizeX * sizeZ, <<>>)]

---------------------------------------------------------------------------
(* Specification SpecSpan: rcAddSpan called repeatedly on one heightfield.  *)

SpanHeights == (0..MaxSmallHeight) \cup {RC_SPAN_MAX_HEIGHT}
SpanAreas == {RC_NULL_AREA, RC_WALKABLE_AREA}

DefaultCfg ==
    [walkableHeight |-> 3, walkableClimb |-> 0, borderSize |-> 0,
     minRegionArea |-> 0, mergeRegionArea |-> 0, flagMergeThreshold |-> 0,
     partitionType |-> "watershed", walkableRadius |-> 0, volumeCount |-> 0]

InitSpan ==
    /\ hf = rcCreateHeightfield(1, 1)
    /\ \E t \in 0..MaxThreshold : cfg = [DefaultCfg EXCEPT !.flagMergeThreshold = t]
    /\ chf = NoChf
    /\ pc = "rasterize"
    /\ ret = "none"
    /\ log = {}
    /\ added = EmptyBag
    /\ preReg = <<>>
    /\ regTable = <<>>
    /\ floodId = 0
    /\ levels = <<>>
    /\ locals = <<>>
    /\ ub = {}
    /\ stages = <<>>

\* rcAddSpan(context, heightfield, x, z, spanMin, spanMax, areaID, threshold);
\* oom: allocSpan could not allocate a new pool.
rcAddSpan(x, z, spanMin, spanMax, areaID, oom) ==
    /\ pc = "rasterize"
    /\ BagCardinality(added) < MaxAdds
    /\ IF oom
       THEN /\ log' = log \cup {"rcAddSpan: Out of memory."}
            /\ ret' = FALSE
            /\ UNCHANGED <<hf, added>>
       ELSE /\ hf' = [hf EXCEPT !.spans[x + z * hf.width] =
                         addSpan(@, spanMin, spanMax, areaID, cfg.flagMergeThreshold)]
            /\ added' = added (+) SetToBag({[smin |-> spanMin, smax |-> spanMax,
                                             area |-> areaID]})
            /\ ret' = TRUE
            /\ UNCHANGED log
    /\ UNCHANGED <<cfg, locals, levels, chf, pc, preReg, regTable, floodId, ub, stages>>

NextSpan ==
    \E x \in 0..(hf.width - 1), z \in 0..(hf.height - 1),
       lo \in SpanHeights, hi \in SpanHeights, a \in SpanAreas, oom \in BOOLEAN :
        /\ lo < hi
        /\ rcAddSpan(x, z, lo, hi, a, oom)

SpecSpan == InitSpan /\ [][NextSpan]_vars

---------------------------------------------------------------------------
(* Specification SpecPool: the span pools behind addSpan                   *)
(* (RecastRasterization.cpp, allocSpan, freeSpan, addSpan).                *)
(* locals holds the heightfield as the code stores it: the pools, newest   *)
(* first, the span slots of all pools (items), numbered from 1 through the *)
(* pools in the order of their allocation, the free list and the first     *)
(* span of each column.  A pointer to a span is the number of its slot and *)
(* 0 is the null pointer.  hf holds the same columns as chains of spans.   *)

\* The number of spans of a pool, RC_SPANS_PER_POOL (2048) in the code.
SpansPerPool == 3
\* The greatest height of a span added to the pools.
MaxPoolHeight == 3
PoolGridWidth == 2

\* Mutant: the span is not put back on the free list.
freeSpanDropped(h, span) == h

\* freeSpan(heightfield, span).
freeSpan(h, span) ==
    IF span = 0 THEN h
    ELSE [h EXCEPT !.items[span].next = h.freelist, !.freelist = span]

\* allocSpan(heightfield); oom: rcAlloc returns NULL for a new pool.  The
\* fields of the spans of a new pool other than next are not initialised
\* and not read before addSpan has written them.
allocSpan(h, oom) ==
    IF h.freelist = 0 \/ h.items[h.freelist].next = 0
    THEN IF oom THEN [hf |-> h, newSpan |-> 0]
         ELSE LET base == Len(h.pools) * SpansPerPool
                  items == [s \in 1..(base + SpansPerPool) |->
                               IF s <= base THEN h.items[s]
                               ELSE [smin |-> 0, smax |-> 0, area |-> 0,
                                     next |-> IF s < base + SpansPerPool THEN s + 1
                                              ELSE h.freelist]]
              IN [hf |-> [h EXCEPT !.pools = <<Len(h.pools) + 1>> \o @,
                                   !.items = items,
                                   !.freelist = items[base + 1].next],
                  newSpan |-> base + 1]
    ELSE [hf |-> [h EXCEPT !.freelist = h.items[h.freelist].next],
          newSpan |-> h.freelist]

\* The while loop of addSpan over the spans of a column; the result holds
\* the heightfield and previousSpan at the end of the loop.
RECURSIVE addSpanLoop(_, _, _, _, _, _)
addSpanLoop(h, columnIndex, newSpan, previousSpan, currentSpan, thr) ==
    IF currentSpan = 0 THEN [hf |-> h, previousSpan |-> previousSpan]
    ELSE LET cur == h.items[currentSpan]
             new == h.items[newSpan]
         IN IF cur.smin > new.smax THEN [hf |-> h, previousSpan |-> previousSpan]
            ELSE IF cur.smax < new.smin
            THEN addSpanLoop(h, columnIndex, newSpan, currentSpan, cur.next, thr)
            ELSE LET smin1 == IF cur.smin < new.smin THEN cur.smin ELSE new.smin
                     smax1 == IF cur.smax > new.smax THEN cur.smax ELSE new.smax
                     area1 == IF rcAbs(smax1 - cur.smax) <= thr
                              THEN rcMax(new.area, cur.area)
                              ELSE new.area
                     widened == [h EXCEPT !.items[newSpan] =
                                    [smin |-> smin1, smax |-> smax1, area |-> area1,
                                     next |-> new.next]]
                     freed == freeSpan(widened, currentSpan)
                     unlinked == IF previousSpan # 0
                                 THEN [freed EXCEPT !.items[previousSpan].next = cur.next]
                                 ELSE [freed EXCEPT !.spans[columnIndex] = cur.next]
                 IN addSpanLoop(unlinked, columnIndex, newSpan, previousSpan,
                                cur.next, thr)

\* addSpan(heightfield, x, z, min, max, areaID, flagMergeThreshold) on the
\* pools: the heightfield after the call and the value returned.
addSpanPooled(h, columnIndex, min, max, areaID, thr, oom) ==
    LET alloc == allocSpan(h, oom)
        newSpan == alloc.newSpan
    IN IF newSpan = 0 THEN [hf |-> alloc.hf, ret |-> FALSE]
       ELSE LET fresh == [alloc.hf EXCEPT !.items[newSpan] =
                             [smin |-> SpanBits(min), smax |-> SpanBits(max),
                              area |-> areaID, next |-> 0]]
                walked == addSpanLoop(fresh, columnIndex, newSpan, 0,
                                      fresh.spans[columnIndex], thr)
                g == walked.hf
                previousSpan == walked.previousSpan
            IN [hf |-> IF previousSpan # 0
                       THEN [g EXCEPT !.items[newSpan].next = g.items[previousSpan].next,
                                      !.items[previousSpan].next = newSpan]
                       ELSE [g EXCEPT !.items[newSpan].next = g.spans[columnIndex],
                                      !.spans[columnIndex] = newSpan],
                ret |-> TRUE]

\* rcCreateHeightfield: no pool, an empty free list and empty columns.
InitPool ==
    /\ hf = rcCreateHeightfield(PoolGridWidth, 1)
    /\ locals = [pools |-> <<>>, freelist |-> 0, items |-> <<>>,
                 spans |-> [col \in 0..(PoolGridWidth - 1) |-> 0]]
    /\ cfg = DefaultCfg
    /\ chf = NoChf
    /\ pc = "rasterize"
    /\ ret = TRUE
    /\ log = {}
    /\ added = EmptyBag
    /\ preReg = <<>>
    /\ regTable = <<>>
    /\ floodId = 0
    /\ levels = <<>>
    /\ ub = {}
    /\ stages = <<>>

\* rcAddSpan(context, heightfield, x, z, spanMin, spanMax, areaID, threshold)
\* with the pools; oom: rcAlloc fails if allocSpan asks for a new pool.
AddSpanPooled(x, z, spanMin, spanMax, areaID, oom) ==
    /\ pc = "rasterize"
    /\ \E r \in {addSpanPooled(locals, x + z * hf.width, spanMin, spanMax, areaID,
                               cfg.flagMergeThreshold, oom)} :
          /\ locals' = r.hf
          /\ ret' = r.ret
          /\ IF r.ret
             THEN /\ hf' = [hf EXCEPT !.spans[x + z * hf.width] =
                               addSpan(@, spanMin, spanMax, areaID,
                                       cfg.flagMergeThreshold)]
                  /\ UNCHANGED log
             ELSE /\ log' = log \cup {"rcAddSpan: Out of memory."}
                  /\ UNCHANGED hf
    /\ UNCHANGED <<cfg, levels, chf, pc, added, preReg, regTable, floodId, ub, stages>>

SpecPool ==
    InitPool /\ [][\E x \in 0..(hf.width - 1), lo \in 0..MaxPoolHeight,
                      hi \in 0..MaxPoolHeight, oom \in BOOLEAN :
                      lo < hi /\ AddSpanPooled(x, 0, lo, hi, RC_WALKABLE_AREA, oom)]_vars

---------------------------------------------------------------------------
(* Compact heightfield: rcBuildCompactHeightfield (Recast.cpp).            *)

rcGetDirOffsetX(dir) == <<-1, 0, 1, 0>>[(dir % 4) + 1]
rcGetDirOffsetY(dir) == <<0, 1, 0, -1>>[(dir % 4) + 1]

\* The mutant emits a compact span for every span, null areas included.
RECURSIVE CompactSpansOfChainWithNull(_, _)
CompactSpansOfChainWithNull(chain, k) ==
    IF k > Len(chain) THEN <<>>
    ELSE LET bot == chain[k].smax
             top == IF k < Len(chain) THEN chain[k + 1].smin ELSE MAX_HEIGHT
         IN <<[y |-> rcClamp(bot, 0, 65535),
               h |-> rcClamp(top - bot, 0, 255),
               area |-> chain[k].area]>>
            \o CompactSpansOfChainWithNull(chain, k + 1)

\* The compact spans emitted for one column, bottom-up: one per span whose
\* area is not RC_NULL_AREA, with the floor at the span's top and the height
\* up to the next span's bottom (MAX_HEIGHT above the last span).
RECURSIVE CompactSpansOfChain(_, _)
CompactSpansOfChain(chain, k) ==
    IF k > Len(chain) THEN <<>>
    ELSE IF chain[k].area # RC_NULL_AREA
         THEN LET bot == chain[k].smax
                  top == IF k < Len(chain) THEN chain[k + 1].smin ELSE MAX_HEIGHT
              IN <<[y |-> rcClamp(bot, 0, 65535),
                    h |-> rcClamp(top - bot, 0, 255),
                    area |-> chain[k].area]>>
                 \o CompactSpansOfChain(chain, k + 1)
         ELSE CompactSpansOfChain(chain, k + 1)

\* First pass: the cells and the flat span array, columns in row-major order.
\* acc = [cells, spans] built for the columns below columnIndex.
\* The loop runs over the columns columnIndex..stop-1.
RECURSIVE FillCompact(_, _, _, _)
FillCompact(heightfield, columnIndex, stop, acc) ==
    IF columnIndex >= stop THEN acc
    ELSE IF stop - columnIndex > 1
    THEN Only([half \in {FillCompact(heightfield, columnIndex,
                                     (columnIndex + stop) \div 2, acc)} |->
            After(half, FillCompact(heightfield, (columnIndex + stop) \div 2, stop, half))])
    ELSE LET chain == heightfield.spans[columnIndex]
             emitted == CompactSpansOfChain(chain, 1)
             cell == IF chain = <<>>
                     THEN [index |-> 0, count |-> 0]
                     ELSE [index |-> Len(acc.spans), count |-> Len(emitted) % 256]
         IN [cells |-> Append(acc.cells, cell), spans |-> acc.spans \o emitted]

\* The walkable-height and climb test between two compact spans.
CanConnect(span, neighborSpan, walkableHeight, walkableClimb) ==
    LET bot == rcMax(span.y, neighborSpan.y)
        top == rcMin(span.y + span.h, neighborSpan.y + neighborSpan.h)
    IN /\ (top - bot) >= walkableHeight
       /\ rcAbs(neighborSpan.y - span.y) <= walkableClimb

\* The spans of the neighbouring column that pass the test, as indices
\* into the flat array ({} when the neighbour is outside the grid).
NeighborMatches(cells, flat, w, h, x, z, i, dir, walkableHeight, walkableClimb) ==
    LET nx == x + rcGetDirOffsetX(dir)
        nz == z + rcGetDirOffsetY(dir)
    IN IF nx < 0 \/ nz < 0 \/ nx >= w \/ nz >= h THEN {}
       ELSE LET nc == cells[nx + nz * w]
            IN {k \in nc.index..(nc.index + nc.count - 1) :
                   CanConnect(flat[i], flat[k], walkableHeight, walkableClimb)}

SetMin(S) == CHOOSE m \in S : \A n \in S : m <= n
SetMax(S) == CHOOSE m \in S : \A n \in S : m >= n

\* The mutant connects to the lowest matching span whatever its layer index.
ConnectionOfAnyLayer(cells, flat, w, h, x, z, i, dir, walkableHeight, walkableClimb) ==
    LET nx == x + rcGetDirOffsetX(dir)
        nz == z + rcGetDirOffsetY(dir)
        m == NeighborMatches(cells, flat, w, h, x, z, i, dir, walkableHeight, walkableClimb)
    IN IF m = {} THEN RC_NOT_CONNECTED
       ELSE (SetMin(m) - cells[nx + nz * w].index) % 64

\* The mutant connects to the highest matching span of the column.
ConnectionOfHighest(cells, flat, w, h, x, z, i, dir, walkableHeight, walkableClimb) ==
    LET nx == x + rcGetDirOffsetX(dir)
        nz == z + rcGetDirOffsetY(dir)
        m == NeighborMatches(cells, flat, w, h, x, z, i, dir, walkableHeight, walkableClimb)
        first == cells[nx + nz * w].index
        usable == {k \in m : k - first <= MAX_LAYERS}
    IN IF usable = {} THEN RC_NOT_CONNECTED
       ELSE (SetMax(usable) - first) % 64

\* The inner loop over the neighbouring column: the scan takes the first
\* match whose layer index is at most MAX_LAYERS and skips (and records)
\* matches above it; with no such match the direction stays RC_NOT_CONNECTED.
ConnectionOf(cells, flat, w, h, x, z, i, dir, walkableHeight, walkableClimb) ==
    LET nx == x + rcGetDirOffsetX(dir)
        nz == z + rcGetDirOffsetY(dir)
        m == NeighborMatches(cells, flat, w, h, x, z, i, dir, walkableHeight, walkableClimb)
        first == cells[nx + nz * w].index
        usable == {k \in m : k - first <= MAX_LAYERS}
    IN IF usable = {} THEN RC_NOT_CONNECTED
       ELSE (SetMin(usable) - first) % 64

\* The layer indices above MAX_LAYERS met by the scan of one direction.
SkippedLayers(cells, flat, w, h, x, z, i, dir, walkableHeight, walkableClimb) ==
    LET nx == x + rcGetDirOffsetX(dir)
        nz == z + rcGetDirOffsetY(dir)
        m == NeighborMatches(cells, flat, w, h, x, z, i, dir, walkableHeight, walkableClimb)
    IN IF m = {} THEN {}
       ELSE LET first == cells[nx + nz * w].index
            IN IF \E k \in m : k - first <= MAX_LAYERS THEN {}
               ELSE {k - first : k \in m}

\* The column (x + z * width) holding span i.
ColumnOf(cells, i) ==
    CHOOSE c \in DOMAIN cells :
        cells[c].index <= i /\ i < cells[c].index + cells[c].count

\* The span reached from span i through its connection in direction dir.
NeighborSpan(c, i, dir) ==
    LET column == ColumnOf(c.cells, i)
        ax == (column % c.width) + rcGetDirOffsetX(dir)
        ay == (column \div c.width) + rcGetDirOffsetY(dir)
    IN c.cells[ax + ay * c.width].index + c.spans[i].con[dir]

rcBuildCompactHeightfield(walkableHeight, walkableClimb, heightfield) ==
    LET w == heightfield.width
        h == heightfield.height
        filled == FillCompact(heightfield, 0, w * h, [cells |-> <<>>, spans |-> <<>>])
        n == Len(filled.spans)
        cells == [c \in 0..(w * h - 1) |-> filled.cells[c + 1]]
        flat == [i \in 0..(n - 1) |-> filled.spans[i + 1]]
        col == [i \in 0..(n - 1) |-> ColumnOf(cells, i)]
        skipped == UNION {SkippedLayers(cells, flat, w, h, col[i] % w, col[i] \div w,
                                        i, dir, walkableHeight, walkableClimb) :
                          i \in 0..(n - 1), dir \in 0..3}
        maxLayerIndex == IF skipped = {} THEN 0 ELSE SetMax(skipped)
    IN After(filled, After(<<cells, flat, col>>,
       [chf |->
          [width |-> w, height |-> h, spanCount |-> n,
           walkableHeight |-> walkableHeight, walkableClimb |-> walkableClimb,
           borderSize |-> 0, maxDistance |-> 0, maxRegions |-> 0,
           cells |-> cells,
           spans |-> [i \in 0..(n - 1) |->
                        [y |-> flat[i].y, h |-> flat[i].h, reg |-> 0,
                         con |-> [dir \in 0..3 |->
                                    ConnectionOf(cells, flat, w, h, col[i] % w,
                                                 col[i] \div w, i, dir,
                                                 walkableHeight, walkableClimb)]]],
           areas |-> [i \in 0..(n - 1) |-> flat[i].area],
           dist |-> <<>>],
        tooManyLayers |-> maxLayerIndex > MAX_LAYERS]))

---------------------------------------------------------------------------
(* Heightfields a rasterization can leave behind: every column a chain of   *)
(* spans in ascending order with a gap between consecutive spans.           *)

\* The chains of at most n spans with heights in lo..hi, all above `from`.
RECURSIVE ChainsFrom(_, _, _, _)
ChainsFrom(from, hi, n, areas) ==
    IF n = 0 THEN {<<>>}
    ELSE {<<>>} \cup
         UNION {UNION {{<<[smin |-> a, smax |-> b, area |-> ar]>> \o rest :
                         rest \in ChainsFrom(b + 1, hi, n - 1, areas), ar \in areas} :
                       b \in (a + 1)..hi} :
                a \in from..hi}

Heightfields(w, h, chains) ==
    {[width |-> w, height |-> h, spans |-> sp] : sp \in [0..(w * h - 1) -> chains]}

---------------------------------------------------------------------------
(* Specification SpecCompact: rcBuildCompactHeightfield on a heightfield.  *)

\* Span heights of the heightfields range over 0..MaxChainHeight.
MaxChainHeight == 5
\* A column holds at most MaxChainSpans spans.
MaxChainSpans == 2
\* walkableClimb ranges over 0..MaxClimb.
MaxClimb == 4
\* walkableHeight ranges over 3..(3 + ExtraWalkableHeight).
ExtraWalkableHeight == 0

\* 2 x 1 heightfields with a tower in one column, MAX_LAYERS + 2 spans or a
\* few more, one unit thick and three units apart, and in the other column
\* one span with its top at the top of one of the highest spans of the tower.
TowerGrids ==
    {[width |-> 2, height |-> 1,
      spans |-> [k \in 0..1 |->
                    IF k = at
                    THEN [j \in 1..n |->
                            [smin |-> 4 * (j - 1), smax |-> 4 * (j - 1) + 1,
                             area |-> RC_WALKABLE_AREA]] \o <<>>
                    ELSE <<[smin |-> 0, smax |-> 4 * layer + 1,
                            area |-> RC_WALKABLE_AREA]>>]] :
        at \in 0..1, n \in (MAX_LAYERS + 2)..(MAX_LAYERS + 4),
        layer \in MAX_LAYERS..(MAX_LAYERS + 2)}

InitCompact ==
    /\ \/ \E shape \in {<<2, 1>>, <<1, 2>>} :
             hf \in Heightfields(shape[1], shape[2],
                                 ChainsFrom(0, MaxChainHeight, MaxChainSpans, SpanAreas))
       \/ hf \in TowerGrids
    /\ \E wh \in 3..(3 + ExtraWalkableHeight), wc \in 0..MaxClimb :
          cfg = [DefaultCfg EXCEPT !.walkableHeight = wh, !.walkableClimb = wc]
    /\ chf = NoChf
    /\ pc = "compact"
    /\ ret = "none"
    /\ log = {}
    /\ added = EmptyBag
    /\ preReg = <<>>
    /\ regTable = <<>>
    /\ floodId = 0
    /\ levels = <<>>
    /\ locals = <<>>
    /\ ub = {}
    /\ stages = <<>>

\* rcBuildCompactHeightfield(ctx, walkableHeight, walkableClimb, solid, chf).
BuildCompactHeightfield ==
    /\ pc = "compact"
    /\ pc' = "compacted"
    /\ LET r == rcBuildCompactHeightfield(cfg.walkableHeight, cfg.walkableClimb, hf)
       IN /\ chf' = r.chf
          /\ log' = IF r.tooManyLayers
                    THEN log \cup {"rcBuildCompactHeightfield: Heightfield has too many layers"}
                    ELSE log
    /\ ret' = TRUE
    /\ UNCHANGED <<hf, cfg, locals, levels, added, preReg, regTable, floodId, ub, stages>>

NextCompact == BuildCompactHeightfield

SpecCompact == InitCompact /\ [][NextCompact]_vars

---------------------------------------------------------------------------
(* Region partitioning (RecastRegion.cpp).  Work arrays (srcReg, srcDist,  *)
(* the region table) are sequences: element i of a C array is seq[i + 1].  *)

HasBorderFlag(r) == (r \div RC_BORDER_REG) % 2 = 1

\* cols[i + 1] is the column x + y * width of span i, for the spans of the
\* columns from `column` on.
ColumnTable(c, column) ==
    SelectSeq([k \in 1..c.spanCount |-> ColumnOf(c.cells, k - 1)],
              LAMBDA x : x >= column)

\* The index of the span connected to span i in direction dir, -1 if none:
\* chf.cells[ax + ay * w].index + rcGetCon(s, dir).
Link(c, i, dir) ==
    IF c.spans[i].con[dir] = RC_NOT_CONNECTED THEN -1 ELSE NeighborSpan(c, i, dir)

\* nb[i + 1 - first][dir + 1] for every span from span `first` on and every
\* direction.
LinkTable(c, first) ==
    [k \in 1..(c.spanCount - first) |->
        <<Link(c, first + k - 1, 0), Link(c, first + k - 1, 1),
          Link(c, first + k - 1, 2), Link(c, first + k - 1, 3)>>] \o <<>>

\* The spans of the columns minx..maxx-1 x miny..maxy-1, in scan order.
SpansInRect(c, col, minx, maxx, miny, maxy) ==
    SelectSeq([k \in 1..c.spanCount |-> k - 1],
              LAMBDA i : /\ col[i + 1] % c.width >= minx
                         /\ col[i + 1] % c.width < maxx
                         /\ col[i + 1] \div c.width >= miny
                         /\ col[i + 1] \div c.width < maxy)

\* The spans of the rectangle that have an area get regId.
PaintSpans(c, spans, k, regId, srcReg) ==
    [j \in 1..Len(srcReg) |->
        IF /\ \E m \in k..Len(spans) : spans[m] = j - 1
           /\ c.areas[j - 1] # RC_NULL_AREA
        THEN regId ELSE srcReg[j]] \o <<>>

paintRectRegion(minx, maxx, miny, maxy, regId, c, col, srcReg) ==
    PaintSpans(c, SpansInRect(c, col, minx, maxx, miny, maxy), 1, regId, srcReg)

\* The four border rectangles painted when borderSize > 0; the IDs 1..4 are
\* used up whether or not a rectangle holds a span.
PaintBorders(c, col, borderSize, regionId, srcReg) ==
    IF borderSize > 0
    THEN LET w == c.width
             h == c.height
             bw == rcMin(w, borderSize)
             bh == rcMin(h, borderSize)
             r1 == paintRectRegion(0, bw, 0, h, regionId + RC_BORDER_REG, c, col, srcReg)
             r2 == paintRectRegion(w - bw, w, 0, h, regionId + 1 + RC_BORDER_REG, c, col, r1)
             r3 == paintRectRegion(0, w, 0, bh, regionId + 2 + RC_BORDER_REG, c, col, r2)
             r4 == paintRectRegion(0, w, h - bh, h, regionId + 3 + RC_BORDER_REG, c, col, r3)
         IN [srcReg |-> r4, id |-> regionId + 4]
    ELSE [srcReg |-> srcReg, id |-> regionId]

\* One span of the row sweep: join the sweep of the -x neighbour or open a
\* new one, then sample the region of the -y neighbour.
\* st = [srcReg, sweeps, prev, rid].
SweepSpan(c, nb, st, i) ==
    IF c.areas[i] = RC_NULL_AREA THEN st
    ELSE LET west == nb[i + 1][1]
             westReg == IF /\ west # -1
                           /\ ~HasBorderFlag(st.srcReg[west + 1])
                           /\ c.areas[i] = c.areas[west]
                        THEN st.srcReg[west + 1] ELSE 0
             fresh == westReg = 0
             previd == IF fresh THEN st.rid ELSE westReg
             sweeps1 == IF fresh
                        THEN Append(st.sweeps, [rid |-> previd, id |-> 0, ns |-> 0, nei |-> 0])
                        ELSE st.sweeps
             south == nb[i + 1][4]
             sees == /\ south # -1
                     /\ st.srcReg[south + 1] # 0
                     /\ ~HasBorderFlag(st.srcReg[south + 1])
                     /\ c.areas[i] = c.areas[south]
             nr == st.srcReg[south + 1]
             accept == sweeps1[previd].nei = 0 \/ sweeps1[previd].nei = nr
         IN [srcReg |-> [st.srcReg EXCEPT ![i + 1] = previd],
             sweeps |-> IF ~sees THEN sweeps1
                        ELSE IF accept
                             THEN [sweeps1 EXCEPT ![previd].nei = nr,
                                                  ![previd].ns = (@ + 1) % 65536]
                             ELSE [sweeps1 EXCEPT ![previd].nei = RC_NULL_NEI],
             prev |-> IF sees /\ accept THEN [st.prev EXCEPT ![nr] = @ + 1] ELSE st.prev,
             rid |-> IF fresh THEN st.rid + 1 ELSE st.rid]

RECURSIVE SweepRowSpans(_, _, _, _, _)
SweepRowSpans(c, nb, st, spans, k) ==
    IF k > Len(spans) THEN st
    ELSE LET next == SweepSpan(c, nb, st, spans[k])
         IN After(next, SweepRowSpans(c, nb, next, spans, k + 1))

\* The final ID of every sweep of the row: the region below when this sweep
\* is its only contact in the row, a new ID otherwise.  acc = [sweeps, id].
RECURSIVE AssignSweepIds(_, _, _)
AssignSweepIds(acc, prev, i) ==
    IF i > Len(acc.sweeps) THEN acc
    ELSE LET s == acc.sweeps[i]
         IN IF s.nei # RC_NULL_NEI /\ s.nei # 0 /\ prev[s.nei] = s.ns
            THEN AssignSweepIds([sweeps |-> [acc.sweeps EXCEPT ![i].id = s.nei],
                                 id |-> acc.id], prev, i + 1)
            ELSE AssignSweepIds([sweeps |-> [acc.sweeps EXCEPT ![i].id = acc.id],
                                 id |-> (acc.id + 1) % 65536], prev, i + 1)

RECURSIVE RemapRowSpans(_, _, _, _, _)
RemapRowSpans(spans, k, sweeps, rid, srcReg) ==
    IF k > Len(spans) THEN srcReg
    ELSE LET r == srcReg[spans[k] + 1]
         IN RemapRowSpans(spans, k + 1, sweeps, rid,
                          IF r > 0 /\ r < rid
                          THEN [srcReg EXCEPT ![spans[k] + 1] = sweeps[r].id]
                          ELSE srcReg)

\* The row loop shared by rcBuildRegionsMonotone and rcBuildLayerRegions.
\* acc = [srcReg, id, maxSweep]; maxSweep is the largest index written into
\* the sweeps array, which holds max(width, height) entries.
RECURSIVE SweepRows(_, _, _, _, _, _)
SweepRows(c, nb, col, borderSize, y, acc) ==
    IF y >= c.height - borderSize THEN acc
    ELSE Only([spans \in {SpansInRect(c, col, borderSize, c.width - borderSize, y, y + 1)}
              |->
         Only([swept \in {SweepRowSpans(c, nb,
                  [srcReg |-> acc.srcReg, sweeps |-> <<>>,
                   prev |-> [k \in 1..acc.id |-> 0], rid |-> 1],
                  spans, 1)} |->
         Only([ids \in {AssignSweepIds([sweeps |-> swept.sweeps, id |-> acc.id], swept.prev, 1)}
              |->
         Only([next \in {[srcReg |-> RemapRowSpans(spans, 1, ids.sweeps, swept.rid, swept.srcReg),
               id |-> ids.id,
               maxSweep |-> rcMax(acc.maxSweep, swept.rid - 1)]} |->
           SweepRows(c, nb, col, borderSize, y + 1, next)])])])])

---------------------------------------------------------------------------
(* Region table and contour walk.                                          *)

\* The iteration cap of walkContour.
WalkCap == 40000
\* A contour walk is cut after MaxWalkIterations iterations: more than four
\* per span of the largest compact heightfield of the specifications.
MaxWalkIterations == 256

rcRegion(i) ==
    [spanCount |-> 0, id |-> i, areaType |-> 0, remap |-> FALSE, visited |-> FALSE,
     overlap |-> FALSE, connectsToBorder |-> FALSE, ymin |-> 65535, ymax |-> 0,
     connections |-> <<>>, floors |-> <<>>]

SeqContains(s, v) == \E k \in 1..Len(s) : s[k] = v

RemoveAt(s, k) == SubSeq(s, 1, k - 1) \o SubSeq(s, k + 1, Len(s))

\* The loop of removeAdjacentNeighbours, from 0-based position i.
RECURSIVE RemoveAdjacentFrom(_, _)
RemoveAdjacentFrom(connections, i) ==
    IF i < Len(connections) /\ Len(connections) > 1
    THEN LET ni == (i + 1) % Len(connections)
         IN IF connections[i + 1] = connections[ni + 1]
            THEN RemoveAdjacentFrom(RemoveAt(connections, i + 1), i)
            ELSE RemoveAdjacentFrom(connections, i + 1)
    ELSE connections

removeAdjacentNeighbours(reg) ==
    [reg EXCEPT !.connections = RemoveAdjacentFrom(reg.connections, 0)]

replaceNeighbour(reg, oldId, newId) ==
    LET swap(s) == [k \in 1..Len(s) |-> IF s[k] = oldId THEN newId ELSE s[k]]
        neiChanged == SeqContains(reg.connections, oldId)
        reg1 == [reg EXCEPT !.connections = swap(reg.connections),
                            !.floors = swap(reg.floors)]
    IN IF neiChanged THEN removeAdjacentNeighbours(reg1) ELSE reg1

\* Mutant: regions of different areas may merge.
canMergeWithRegionAnyArea(rega, regb) ==
    /\ Cardinality({k \in 1..Len(rega.connections) : rega.connections[k] = regb.id}) <= 1
    /\ ~SeqContains(rega.floors, regb.id)

canMergeWithRegion(rega, regb) ==
    /\ rega.areaType = regb.areaType
    /\ Cardinality({k \in 1..Len(rega.connections) : rega.connections[k] = regb.id}) <= 1
    /\ ~SeqContains(rega.floors, regb.id)

addUniqueFloorRegion(reg, n) ==
    IF SeqContains(reg.floors, n) THEN reg ELSE [reg EXCEPT !.floors = Append(@, n)]

RECURSIVE AddFloors(_, _, _)
AddFloors(reg, floors, k) ==
    IF k > Len(floors) THEN reg
    ELSE LET next == addUniqueFloorRegion(reg, floors[k])
         IN After(next, AddFloors(next, floors, k + 1))

FirstIndexOf(s, v) ==
    IF SeqContains(s, v) THEN SetMin({k \in 1..Len(s) : s[k] = v}) - 1 ELSE -1

\* mergeRegions(rega, regb): [ok, rega, regb] after the call.
mergeRegions(rega, regb) ==
    LET acon == rega.connections
        bcon == regb.connections
        insa == FirstIndexOf(acon, regb.id)
        insb == FirstIndexOf(bcon, rega.id)
        na == Len(acon)
        nbc == Len(bcon)
        joined == [i \in 1..(na - 1) |-> acon[((insa + i) % na) + 1]]
                  \o [i \in 1..(nbc - 1) |-> bcon[((insb + i) % nbc) + 1]]
        a1 == removeAdjacentNeighbours([rega EXCEPT !.connections = joined])
        a2 == AddFloors(a1, regb.floors, 1)
    IN IF insa = -1 \/ insb = -1
       THEN [ok |-> FALSE, rega |-> rega, regb |-> regb]
       ELSE [ok |-> TRUE,
             rega |-> [a2 EXCEPT !.spanCount = @ + regb.spanCount],
             regb |-> [regb EXCEPT !.spanCount = 0, !.connections = <<>>]]

isRegionConnectedToBorder(reg) == SeqContains(reg.connections, 0)

\* The region label across the edge of span i in direction dir (0 if open).
RegionAcross(nb, srcReg, i, dir) ==
    IF nb[i + 1][dir + 1] # -1 THEN srcReg[nb[i + 1][dir + 1] + 1] ELSE 0

isSolidEdge(nb, srcReg, i, dir) == RegionAcross(nb, srcReg, i, dir) # srcReg[i + 1]

\* The while loop of walkContour; iter is the counter after ++iter.
\* Result: [cont, finished, capped]; finished is FALSE on the early return,
\* capped is TRUE when the loop ends on its counter.  The step from (i, dir)
\* depends on (i, dir) alone, so a walk that has not closed after four
\* iterations per span never closes: the loop is cut at MaxWalkIterations
\* then, with the regions met so far in cont.
\* st = [i, dir, curReg, cont, iter, done, finished, capped] holds the
\* locals of the walk and how it has ended, and the loop makes at most
\* `passes` further iterations.
RECURSIVE WalkLoop(_, _, _, _, _, _)
WalkLoop(nb, srcReg, starti, startDir, st, passes) ==
    IF st.done \/ passes = 0 THEN st
    ELSE IF passes > 1
    THEN Only([half \in {WalkLoop(nb, srcReg, starti, startDir, st, passes \div 2)} |->
            After(half, WalkLoop(nb, srcReg, starti, startDir, half,
                                 passes - passes \div 2))])
    ELSE IF st.iter >= rcMin(WalkCap, MaxWalkIterations)
    THEN [st EXCEPT !.done = TRUE, !.finished = TRUE, !.capped = TRUE]
    ELSE IF isSolidEdge(nb, srcReg, st.i, st.dir)
         THEN LET r == RegionAcross(nb, srcReg, st.i, st.dir)
                  cont1 == IF r # st.curReg THEN Append(st.cont, r) ELSE st.cont
                  dir1 == (st.dir + 1) % 4
              IN IF starti = st.i /\ startDir = dir1
                 THEN [st EXCEPT !.cont = cont1, !.done = TRUE, !.finished = TRUE]
                 ELSE [st EXCEPT !.dir = dir1, !.curReg = r, !.cont = cont1,
                                 !.iter = @ + 1]
         ELSE LET ni == nb[st.i + 1][st.dir + 1]
                  dir1 == (st.dir + 3) % 4
              IN IF ni = -1 THEN [st EXCEPT !.done = TRUE]
                 ELSE IF starti = ni /\ startDir = dir1
                      THEN [st EXCEPT !.done = TRUE, !.finished = TRUE]
                      ELSE [st EXCEPT !.i = ni, !.dir = dir1, !.iter = @ + 1]

\* The locals of walkContour as it enters the loop.
WalkEntry(i, dir, curReg, cont) ==
    [i |-> i, dir |-> dir, curReg |-> curReg, cont |-> cont, iter |-> 1,
     done |-> FALSE, finished |-> FALSE, capped |-> FALSE]

\* The closing pass of walkContour over adjacent duplicates (no size guard
\* inside the loop, unlike removeAdjacentNeighbours).
RECURSIVE DropAdjacentFrom(_, _)
DropAdjacentFrom(cont, j) ==
    IF j < Len(cont)
    THEN LET nj == (j + 1) % Len(cont)
         IN IF cont[j + 1] = cont[nj + 1]
            THEN DropAdjacentFrom(RemoveAt(cont, j + 1), j)
            ELSE DropAdjacentFrom(cont, j + 1)
    ELSE cont

walkContour(i, dir, nb, srcReg, cont) ==
    LET curReg == RegionAcross(nb, srcReg, i, dir)
        walked == WalkLoop(nb, srcReg, i, dir,
                           WalkEntry(i, dir, curReg, Append(cont, curReg)),
                           rcMin(WalkCap, MaxWalkIterations))
    IN IF walked.finished /\ Len(walked.cont) > 1
       THEN DropAdjacentFrom(walked.cont, 0)
       ELSE walked.cont

---------------------------------------------------------------------------
(* mergeAndFilterRegions.                                                  *)

\* The floor pass of one span: the other labelled spans of its column.
RECURSIVE GatherFloors(_, _, _, _, _, _, _)
GatherFloors(reg, r, srcReg, nreg, i, j, nj) ==
    IF j >= nj THEN reg
    ELSE LET floorId == srcReg[j + 1]
         IN IF i = j \/ floorId = 0 \/ floorId >= nreg
            THEN GatherFloors(reg, r, srcReg, nreg, i, j + 1, nj)
            ELSE LET next == addUniqueFloorRegion(
                                 IF floorId = r THEN [reg EXCEPT !.overlap = TRUE] ELSE reg,
                                 floorId)
                 IN After(next, GatherFloors(next, r, srcReg, nreg, i, j + 1, nj))

\* The body of the first loop for span i: count, floors and, for the first
\* span of the region with a solid edge, the contour.
GatherSpan(c, nb, col, srcReg, nreg, regions, i) ==
    LET r == srcReg[i + 1]
    IN IF r = 0 \/ r >= nreg THEN regions
       ELSE LET cell == c.cells[col[i + 1]]
                reg1 == [regions[r + 1] EXCEPT !.spanCount = @ + 1]
                reg2 == GatherFloors(reg1, r, srcReg, nreg, i,
                                     cell.index, cell.index + cell.count)
                solid == {dir \in 0..3 : isSolidEdge(nb, srcReg, i, dir)}
                reg3 == [reg2 EXCEPT !.areaType = c.areas[i]]
            IN [regions EXCEPT ![r + 1] =
                   IF reg2.connections # <<>> THEN reg2
                   ELSE IF solid = {} THEN reg3
                        ELSE [reg3 EXCEPT !.connections =
                                 walkContour(i, SetMin(solid), nb, srcReg, reg3.connections)]]

\* The first loop over the spans i..stop-1.
RECURSIVE GatherRegions(_, _, _, _, _, _, _, _)
GatherRegions(c, nb, col, srcReg, nreg, regions, i, stop) ==
    IF i >= stop THEN regions
    ELSE IF stop - i > 1
    THEN Only([half \in {GatherRegions(c, nb, col, srcReg, nreg, regions, i,
                                       (i + stop) \div 2)} |->
            After(half, GatherRegions(c, nb, col, srcReg, nreg, half, (i + stop) \div 2, stop))])
    ELSE GatherSpan(c, nb, col, srcReg, nreg, regions, i)

\* The connection loop of one popped region: acc = [regions, stack, border].
RECURSIVE VisitConnections(_, _, _)
VisitConnections(acc, connections, j) ==
    IF j > Len(connections) THEN acc
    ELSE LET n == connections[j]
         IN IF HasBorderFlag(n)
            THEN VisitConnections([acc EXCEPT !.border = TRUE], connections, j + 1)
            ELSE LET neireg == acc.regions[n + 1]
                 IN IF neireg.visited \/ neireg.id = 0 \/ HasBorderFlag(neireg.id)
                    THEN VisitConnections(acc, connections, j + 1)
                    ELSE VisitConnections(
                             [acc EXCEPT !.stack = Append(@, neireg.id),
                                         !.regions[n + 1].visited = TRUE],
                             connections, j + 1)

\* The stack loop: acc = [regions, stack, border, trace, spanCount].
RECURSIVE TraceComponent(_)
TraceComponent(acc) ==
    IF acc.stack = <<>> THEN acc
    ELSE LET ri == acc.stack[Len(acc.stack)]
             creg == acc.regions[ri + 1]
             popped == [acc EXCEPT !.stack = SubSeq(@, 1, Len(@) - 1),
                                   !.spanCount = @ + creg.spanCount,
                                   !.trace = Append(@, ri)]
             seen == VisitConnections([regions |-> popped.regions, stack |-> popped.stack,
                                       border |-> popped.border],
                                      creg.connections, 1)
         IN TraceComponent([popped EXCEPT !.regions = seen.regions,
                                          !.stack = seen.stack,
                                          !.border = seen.border])

RECURSIVE ZeroTrace(_, _, _)
ZeroTrace(regions, trace, j) ==
    IF j > Len(trace) THEN regions
    ELSE LET next == [regions EXCEPT ![trace[j] + 1].spanCount = 0,
                                     ![trace[j] + 1].id = 0]
         IN After(next, ZeroTrace(next, trace, j + 1))

\* A removal of small regions that removes nothing.
RemoveSmallRegionsKeepsAll(regions, nreg, minRegionArea, i) == regions

\* Removal of small regions: one depth-first trace per unvisited region.
RECURSIVE RemoveSmallRegions(_, _, _, _)
RemoveSmallRegions(regions, nreg, minRegionArea, i) ==
    IF i >= nreg THEN regions
    ELSE LET reg == regions[i + 1]
         IN IF reg.id = 0 \/ HasBorderFlag(reg.id) \/ reg.spanCount = 0 \/ reg.visited
            THEN RemoveSmallRegions(regions, nreg, minRegionArea, i + 1)
            ELSE LET traced == TraceComponent(
                                   [regions |-> [regions EXCEPT ![i + 1].visited = TRUE],
                                    stack |-> <<i>>, border |-> FALSE,
                                    trace |-> <<>>, spanCount |-> 0])
                 IN RemoveSmallRegions(
                        IF traced.spanCount < minRegionArea /\ ~traced.border
                        THEN ZeroTrace(traced.regions, traced.trace, 1)
                        ELSE traced.regions,
                        nreg, minRegionArea, i + 1)

\* The neighbour a region is merged into: acc = [smallest, mergeId].
RECURSIVE PickMergeTarget(_, _, _, _)
PickMergeTarget(regions, reg, j, acc) ==
    IF j > Len(reg.connections) THEN acc
    ELSE LET n == reg.connections[j]
         IN IF HasBorderFlag(n) THEN PickMergeTarget(regions, reg, j + 1, acc)
            ELSE LET mreg == regions[n + 1]
                 IN IF mreg.id = 0 \/ HasBorderFlag(mreg.id) \/ mreg.overlap
                    THEN PickMergeTarget(regions, reg, j + 1, acc)
                    ELSE IF /\ mreg.spanCount < acc.smallest
                            /\ canMergeWithRegion(reg, mreg)
                            /\ canMergeWithRegion(mreg, reg)
                         THEN PickMergeTarget(regions, reg, j + 1,
                                  [smallest |-> mreg.spanCount, mergeId |-> mreg.id])
                         ELSE PickMergeTarget(regions, reg, j + 1, acc)

\* After a merge: every live region drops the old ID.
FixupMerged(regions, oldId, mergeId) ==
    [j \in 1..Len(regions) |->
        IF regions[j].id = 0 \/ HasBorderFlag(regions[j].id) THEN regions[j]
        ELSE replaceNeighbour(
                 IF regions[j].id = oldId THEN [regions[j] EXCEPT !.id = mergeId]
                 ELSE regions[j],
                 oldId, mergeId)]

\* One pass of the merge loop over the regions: acc = [regions, mergeCount].
RECURSIVE MergePass(_, _, _, _)
MergePass(acc, nreg, mergeRegionSize, i) ==
    IF i >= nreg THEN acc
    ELSE LET reg == acc.regions[i + 1]
         IN IF \/ reg.id = 0 \/ HasBorderFlag(reg.id)
               \/ reg.overlap
               \/ reg.spanCount = 0
               \/ (reg.spanCount > mergeRegionSize /\ isRegionConnectedToBorder(reg))
            THEN MergePass(acc, nreg, mergeRegionSize, i + 1)
            ELSE LET pick == PickMergeTarget(acc.regions, reg, 1,
                                 [smallest |-> 268435455, mergeId |-> reg.id])
                     merged == mergeRegions(acc.regions[pick.mergeId + 1], reg)
                     stored == [acc.regions EXCEPT ![pick.mergeId + 1] = merged.rega,
                                                   ![i + 1] = merged.regb]
                 IN IF pick.mergeId # reg.id /\ merged.ok
                    THEN MergePass([regions |-> FixupMerged(stored, reg.id, pick.mergeId) \o <<>>,
                                    mergeCount |-> acc.mergeCount + 1],
                                   nreg, mergeRegionSize, i + 1)
                    ELSE MergePass(acc, nreg, mergeRegionSize, i + 1)

RECURSIVE MergeLoop(_, _, _)
MergeLoop(regions, nreg, mergeRegionSize) ==
    LET pass == MergePass([regions |-> regions, mergeCount |-> 0], nreg, mergeRegionSize, 0)
    IN IF pass.mergeCount > 0 THEN MergeLoop(pass.regions, nreg, mergeRegionSize)
       ELSE pass.regions

\* ID compaction: acc = [regions, regIdGen]; every region still marked remap
\* takes the next ID together with the later regions that share its ID.
RECURSIVE CompressIds(_, _, _)
CompressIds(acc, nreg, i) ==
    IF i >= nreg THEN acc
    ELSE IF ~acc.regions[i + 1].remap THEN CompressIds(acc, nreg, i + 1)
         ELSE LET oldId == acc.regions[i + 1].id
                  newId == (acc.regIdGen + 1) % 65536
              IN CompressIds(
                     [regions |-> [j \in 1..nreg |->
                                      IF j - 1 >= i /\ acc.regions[j].id = oldId
                                      THEN [acc.regions[j] EXCEPT !.id = newId, !.remap = FALSE]
                                      ELSE acc.regions[j]] \o <<>>,
                      regIdGen |-> newId],
                     nreg, i + 1)

\* A marking that skips the entries of the region table without spans.
MarkRemapUsedOnly(regions) ==
    [j \in 1..Len(regions) |->
        [regions[j] EXCEPT !.remap = /\ regions[j].id # 0
                                     /\ ~HasBorderFlag(regions[j].id)
                                     /\ regions[j].spanCount > 0]]
    \o <<>>

\* The entries to renumber: every ID but 0 and the border-flagged ones.
MarkRemap(regions) ==
    [j \in 1..Len(regions) |->
        [regions[j] EXCEPT !.remap = regions[j].id # 0 /\ ~HasBorderFlag(regions[j].id)]]
    \o <<>>

\* A write-back loop without the test of the border flag.
RemapSpansEverySpan(srcReg, regions) ==
    [k \in 1..Len(srcReg) |->
        IF srcReg[k] + 1 \in DOMAIN regions THEN regions[srcReg[k] + 1].id ELSE 0]
    \o <<>>

\* The write-back loop shared by both postprocessors.
RemapSpans(srcReg, regions) ==
    [k \in 1..Len(srcReg) |->
        IF HasBorderFlag(srcReg[k]) THEN srcReg[k] ELSE regions[srcReg[k] + 1].id]
    \o <<>>

mergeAndFilterRegions(minRegionArea, mergeRegionSize, maxRegionId, c, nb, col, srcReg) ==
    Only([nreg \in {maxRegionId + 1} |->
    Only([gathered \in {GatherRegions(c, nb, col, srcReg, nreg,
                       [i \in 1..nreg |-> rcRegion(i - 1)] \o <<>>, 0, c.spanCount)} |->
    Only([filtered \in {RemoveSmallRegions(gathered, nreg, minRegionArea, 0)} |->
    Only([merged \in {MergeLoop(filtered, nreg, mergeRegionSize)} |->
    Only([compressed \in {CompressIds([regions |-> MarkRemap(merged), regIdGen |-> 0], nreg, 0)}
         |->
       [srcReg |-> RemapSpans(srcReg, compressed.regions),
        maxRegionId |-> compressed.regIdGen,
        overlaps |-> SelectSeq([j \in 1..nreg |-> j],
                               LAMBDA j : compressed.regions[j].overlap),
        regions |-> merged]])])])])])

rcBuildRegionsMonotone(c, borderSize, minRegionArea, mergeRegionArea) ==
    Only([nb \in {LinkTable(c, 0)} |->
    Only([col \in {ColumnTable(c, 0)} |->
    Only([painted \in {PaintBorders(c, col, borderSize, 1, [k \in 1..c.spanCount |-> 0] \o <<>>)}
         |->
    Only([swept \in {SweepRows(c, nb, col, borderSize, borderSize,
                   [srcReg |-> painted.srcReg, id |-> painted.id, maxSweep |-> 0])}
         |->
    Only([post \in {mergeAndFilterRegions(minRegionArea, mergeRegionArea, swept.id,
                               c, nb, col, swept.srcReg)} |->
       [chf |-> [c EXCEPT !.borderSize = borderSize,
                          !.maxRegions = post.maxRegionId,
                          !.spans = [i \in DOMAIN c.spans |->
                                        [c.spans[i] EXCEPT !.reg = post.srcReg[i + 1]]]],
        sweepsOverflow |-> swept.maxSweep >= rcMax(c.width, c.height),
        partitioned |-> swept.srcReg,
        regions |-> post.regions]])])])])])

---------------------------------------------------------------------------
(* mergeAndFilterLayerRegions and rcBuildLayerRegions.                     *)

addUniqueConnection(reg, n) ==
    IF SeqContains(reg.connections, n) THEN reg
    ELSE [reg EXCEPT !.connections = Append(@, n)]

\* The direction loop of one span of region ri.
RECURSIVE GatherLayerLinks(_, _, _, _, _, _, _)
GatherLayerLinks(reg, ri, nb, srcReg, nreg, i, dir) ==
    IF dir > 3 THEN reg
    ELSE IF nb[i + 1][dir + 1] = -1
         THEN GatherLayerLinks(reg, ri, nb, srcReg, nreg, i, dir + 1)
         ELSE LET rai == srcReg[nb[i + 1][dir + 1] + 1]
                  reg1 == IF rai > 0 /\ rai < nreg /\ rai # ri
                          THEN addUniqueConnection(reg, rai) ELSE reg
                  reg2 == IF HasBorderFlag(rai)
                          THEN [reg1 EXCEPT !.connectsToBorder = TRUE] ELSE reg1
              IN After(reg2, GatherLayerLinks(reg2, ri, nb, srcReg, nreg, i, dir + 1))

\* The span loop of one column: acc = [regions, lregs].
RECURSIVE GatherLayerColumn(_, _, _, _, _, _, _)
GatherLayerColumn(c, nb, srcReg, nreg, acc, i, ni) ==
    IF i >= ni THEN acc
    ELSE LET ri == srcReg[i + 1]
         IN IF ri = 0 \/ ri >= nreg
            THEN GatherLayerColumn(c, nb, srcReg, nreg, acc, i + 1, ni)
            ELSE LET reg == acc.regions[ri + 1]
                     reg1 == [reg EXCEPT !.spanCount = @ + 1,
                                         !.areaType = c.areas[i],
                                         !.ymin = rcMin(@, c.spans[i].y),
                                         !.ymax = rcMax(@, c.spans[i].y)]
                     reg2 == GatherLayerLinks(reg1, ri, nb, srcReg, nreg, i, 0)
                     next == [regions |-> [acc.regions EXCEPT ![ri + 1] = reg2],
                              lregs |-> Append(acc.lregs, ri)]
                 IN After(next, GatherLayerColumn(c, nb, srcReg, nreg, next, i + 1, ni))

\* The pair loop over the regions of one column; pairs of equal IDs are
\* skipped.  The counter runs over j for a fixed i, then over i.
RECURSIVE PairFloors(_, _, _, _)
PairFloors(regions, lregs, i, j) ==
    IF i >= Len(lregs) - 1 THEN regions
    ELSE IF j >= Len(lregs) THEN PairFloors(regions, lregs, i + 1, i + 2)
         ELSE IF lregs[i + 1] # lregs[j + 1]
              THEN LET a == lregs[i + 1]
                       b == lregs[j + 1]
                       r1 == [regions EXCEPT ![a + 1] = addUniqueFloorRegion(@, b)]
                       r2 == [r1 EXCEPT ![b + 1] = addUniqueFloorRegion(@, a)]
                   IN After(r2, PairFloors(r2, lregs, i, j + 1))
              ELSE PairFloors(regions, lregs, i, j + 1)

\* The loop over the columns column..stop-1.
RECURSIVE GatherLayerRegions(_, _, _, _, _, _, _)
GatherLayerRegions(c, nb, srcReg, nreg, regions, column, stop) ==
    IF column >= stop THEN regions
    ELSE IF stop - column > 1
    THEN Only([half \in {GatherLayerRegions(c, nb, srcReg, nreg, regions, column,
                                            (column + stop) \div 2)} |->
            After(half, GatherLayerRegions(c, nb, srcReg, nreg, half, (column + stop) \div 2, stop))])
    ELSE LET cell == c.cells[column]
             spans == GatherLayerColumn(c, nb, srcReg, nreg,
                                        [regions |-> regions, lregs |-> <<>>],
                                        cell.index, cell.index + cell.count)
         IN PairFloors(spans.regions, spans.lregs, 0, 1)

\* The connection loop of one dequeued region: acc = [regions, stack].
RECURSIVE GrowLayer(_, _, _, _, _, _)
GrowLayer(acc, root, layerId, areaType, connections, j) ==
    IF j > Len(connections) THEN acc
    ELSE LET nei == connections[j]
             regn == acc.regions[nei + 1]
             rootReg == acc.regions[root + 1]
         IN IF \/ regn.id # 0
               \/ areaType # regn.areaType
               \/ SeqContains(rootReg.floors, nei)
            THEN GrowLayer(acc, root, layerId, areaType, connections, j + 1)
            ELSE LET root1 == AddFloors(rootReg, regn.floors, 1)
                     root2 == [root1 EXCEPT
                                 !.ymin = rcMin(@, regn.ymin),
                                 !.ymax = rcMax(@, regn.ymax),
                                 !.spanCount = @ + regn.spanCount,
                                 !.connectsToBorder = @ \/ regn.connectsToBorder]
                     regs1 == [acc.regions EXCEPT ![nei + 1].id = layerId,
                                                  ![nei + 1].spanCount = 0]
                 IN GrowLayer([regions |-> [regs1 EXCEPT ![root + 1] = root2],
                               stack |-> Append(acc.stack, nei)],
                              root, layerId, areaType, connections, j + 1)

\* The queue loop of one layer (the stack is used first-in first-out).
RECURSIVE FloodLayer(_, _, _)
FloodLayer(acc, root, layerId) ==
    IF acc.stack = <<>> THEN acc.regions
    ELSE LET reg == acc.regions[acc.stack[1] + 1]
         IN FloodLayer(GrowLayer([regions |-> acc.regions, stack |-> Tail(acc.stack)],
                                 root, layerId, reg.areaType, reg.connections, 1),
                       root, layerId)

RECURSIVE BuildLayers(_, _, _, _)
BuildLayers(regions, nreg, layerId, i) ==
    IF i >= nreg THEN regions
    ELSE IF regions[i + 1].id # 0 THEN BuildLayers(regions, nreg, layerId, i + 1)
         ELSE BuildLayers(FloodLayer([regions |-> [regions EXCEPT ![i + 1].id = layerId],
                                      stack |-> <<i>>], i, layerId),
                          nreg, (layerId + 1) % 65536, i + 1)

RECURSIVE RemoveSmallLayers(_, _, _, _)
RemoveSmallLayers(regions, nreg, minRegionArea, i) ==
    IF i >= nreg THEN regions
    ELSE LET reg == regions[i + 1]
         IN IF reg.spanCount > 0 /\ reg.spanCount < minRegionArea /\ ~reg.connectsToBorder
            THEN RemoveSmallLayers(
                     [j \in 1..nreg |->
                         IF regions[j].id = reg.id THEN [regions[j] EXCEPT !.id = 0]
                         ELSE regions[j]] \o <<>>,
                     nreg, minRegionArea, i + 1)
            ELSE RemoveSmallLayers(regions, nreg, minRegionArea, i + 1)

mergeAndFilterLayerRegions(minRegionArea, maxRegionId, c, nb, srcReg) ==
    Only([nreg \in {maxRegionId + 1} |->
    Only([gathered \in {GatherLayerRegions(c, nb, srcReg, nreg,
                            [i \in 1..nreg |-> rcRegion(i - 1)] \o <<>>, 0,
                            c.width * c.height)}
         |->
    Only([layered \in {BuildLayers([i \in 1..nreg |-> [gathered[i] EXCEPT !.id = 0]] \o <<>>,
                     nreg, 1, 1)} |->
    Only([filtered \in {RemoveSmallLayers(layered, nreg, minRegionArea, 0)} |->
    Only([compressed \in {CompressIds([regions |-> MarkRemap(filtered), regIdGen |-> 0], nreg, 0)}
         |->
       [srcReg |-> RemapSpans(srcReg, compressed.regions),
        maxRegionId |-> compressed.regIdGen,
        regions |-> layered]])])])])])

rcBuildLayerRegions(c, borderSize, minRegionArea) ==
    Only([nb \in {LinkTable(c, 0)} |->
    Only([col \in {ColumnTable(c, 0)} |->
    Only([painted \in {PaintBorders(c, col, borderSize, 1, [k \in 1..c.spanCount |-> 0] \o <<>>)}
         |->
    Only([swept \in {SweepRows(c, nb, col, borderSize, borderSize,
                   [srcReg |-> painted.srcReg, id |-> painted.id, maxSweep |-> 0])}
         |->
    Only([post \in {mergeAndFilterLayerRegions(minRegionArea, swept.id, c, nb, swept.srcReg)}
         |->
       [chf |-> [c EXCEPT !.borderSize = borderSize,
                          !.maxRegions = post.maxRegionId,
                          !.spans = [i \in DOMAIN c.spans |->
                                        [c.spans[i] EXCEPT !.reg = post.srcReg[i + 1]]]],
        sweepsOverflow |-> swept.maxSweep >= rcMax(c.width, c.height),
        partitioned |-> swept.srcReg,
        regions |-> post.regions]])])])])])

---------------------------------------------------------------------------
(* Distance field: calculateDistanceField, boxBlur, rcBuildDistanceField.  *)

\* The number of connected neighbours of span i with the same area.
SameAreaLinks(c, nb, i) ==
    Cardinality({dir \in 0..3 : nb[i + 1][dir + 1] # -1
                                /\ c.areas[nb[i + 1][dir + 1]] = c.areas[i]})

\* One relaxation of span i over the neighbour in direction dir (cost 2) and
\* that neighbour's neighbour in direction diag (cost 3).
RelaxOver(nb, src, i, v, dir, diag) ==
    IF nb[i + 1][dir + 1] = -1 THEN v
    ELSE LET ai == nb[i + 1][dir + 1]
             v1 == IF src[ai + 1] + 2 < v THEN src[ai + 1] + 2 ELSE v
             aai == nb[ai + 1][diag + 1]
         IN IF aai # -1 /\ src[aai + 1] + 3 < v1 THEN src[aai + 1] + 3 ELSE v1

\* One sweep over the spans in the given order with two direction pairs.
\* The sweep runs over order[k..last].
RECURSIVE DistancePass(_, _, _, _, _, _, _, _, _)
DistancePass(nb, src, order, k, last, d1, g1, d2, g2) ==
    IF k > last THEN src
    ELSE IF last > k
    THEN Only([half \in {DistancePass(nb, src, order, k, (k + last) \div 2,
                                      d1, g1, d2, g2)} |->
            After(half, DistancePass(nb, half, order, (k + last) \div 2 + 1, last, d1, g1, d2, g2))])
    ELSE LET i == order[k]
             v1 == RelaxOver(nb, src, i, src[i + 1], d1, g1)
             v2 == RelaxOver(nb, src, i, v1, d2, g2)
         IN [src EXCEPT ![i + 1] = v2 % 65536]

\* Span indices with the columns in descending order, from `column` down to
\* `stop`, the spans of a column in ascending order (the scan order of the
\* backward pass).
RECURSIVE BackwardOrder(_, _, _)
BackwardOrder(c, column, stop) ==
    IF column < stop THEN <<>>
    ELSE IF column > stop
    THEN BackwardOrder(c, column, (column + stop + 1) \div 2)
         \o BackwardOrder(c, (column + stop + 1) \div 2 - 1, stop)
    ELSE [k \in 1..c.cells[column].count |-> c.cells[column].index + k - 1]

calculateDistanceField(c, nb) ==
    LET n == c.spanCount
        seeded == [k \in 1..n |-> IF SameAreaLinks(c, nb, k - 1) # 4 THEN 0 ELSE 65535] \o <<>>
        forward == DistancePass(nb, seeded, [k \in 1..n |-> k - 1], 1, n, 0, 3, 3, 2)
        backward == DistancePass(nb, forward,
                                 BackwardOrder(c, c.width * c.height - 1, 0),
                                 1, n, 2, 1, 1, 0)
    IN After(seeded, After(forward, After(backward,
       [src |-> backward,
        maxDist |-> IF n = 0 THEN 0 ELSE SetMax({backward[k] : k \in 1..n})])))

\* The contribution of direction dir to the blur sum of span i.
BlurTerm(nb, src, i, dir) ==
    LET cd == src[i + 1]
        ai == nb[i + 1][dir + 1]
    IN IF ai = -1 THEN cd * 2
       ELSE LET ai2 == nb[ai + 1][((dir + 1) % 4) + 1]
            IN src[ai + 1] + (IF ai2 # -1 THEN src[ai2 + 1] ELSE cd)

boxBlur(c, nb, thr, src) ==
    [k \in 1..c.spanCount |->
        IF src[k] <= thr * 2 THEN src[k]
        ELSE ((src[k] + BlurTerm(nb, src, k - 1, 0) + BlurTerm(nb, src, k - 1, 1)
                      + BlurTerm(nb, src, k - 1, 2) + BlurTerm(nb, src, k - 1, 3) + 5)
              \div 9) % 65536]
    \o <<>>

rcBuildDistanceField(c) ==
    LET nb == LinkTable(c, 0)
        field == calculateDistanceField(c, nb)
        blurred == boxBlur(c, nb, 1, field.src)
    IN After(nb, After(field, After(blurred,
       [c EXCEPT !.maxDistance = field.maxDist,
                 !.dist = [i \in 0..(c.spanCount - 1) |-> blurred[i + 1]]])))

---------------------------------------------------------------------------
(* Watershed partitioning: rcBuildRegions.                                 *)

\* The label ar the flood of region r meets around span ci, 0 if none: for
\* the first direction that yields one, the label of an unflagged neighbour
\* of the same area, or of that neighbour's next-direction neighbour of the
\* same area (no flag test on the latter), other than 0 and r.
RECURSIVE FloodConflict(_, _, _, _, _, _, _)
FloodConflict(c, nb, srcReg, ci, r, area, dir) ==
    IF dir > 3 THEN 0
    ELSE LET ai == nb[ci + 1][dir + 1]
             ai2 == nb[ai + 1][((dir + 1) % 4) + 1]
             nr == srcReg[ai + 1]
             nr2 == srcReg[ai2 + 1]
         IN IF ai = -1 \/ c.areas[ai] # area \/ HasBorderFlag(nr)
            THEN FloodConflict(c, nb, srcReg, ci, r, area, dir + 1)
            ELSE IF nr # 0 /\ nr # r THEN nr
            ELSE IF ai2 # -1 /\ c.areas[ai2] = area /\ nr2 # 0 /\ nr2 # r THEN nr2
            ELSE FloodConflict(c, nb, srcReg, ci, r, area, dir + 1)

\* The expansion loop of one kept span: acc = [srcReg, srcDist, stack].
RECURSIVE FloodExpand(_, _, _, _, _, _, _, _)
FloodExpand(c, nb, acc, ci, r, area, lev, dir) ==
    IF dir > 3 THEN acc
    ELSE LET ai == nb[ci + 1][dir + 1]
         IN IF /\ ai # -1
               /\ c.areas[ai] = area
               /\ c.dist[ai] >= lev
               /\ acc.srcReg[ai + 1] = 0
            THEN LET next == [srcReg |-> [acc.srcReg EXCEPT ![ai + 1] = r],
                              srcDist |-> [acc.srcDist EXCEPT ![ai + 1] = 0],
                              stack |-> Append(acc.stack, ai)]
                 IN After(next, FloodExpand(c, nb, next, ci, r, area, lev, dir + 1))
            ELSE FloodExpand(c, nb, acc, ci, r, area, lev, dir + 1)

\* The stack loop of floodRegion:
\* acc = [srcReg, srcDist, stack, count, unlabelled].  The loop makes at most
\* `passes` further iterations.
RECURSIVE FloodLoop(_, _, _, _, _, _, _)
FloodLoop(c, nb, acc, r, area, lev, passes) ==
    IF acc.stack = <<>> \/ passes = 0 THEN acc
    ELSE IF passes > 1
    THEN Only([half \in {FloodLoop(c, nb, acc, r, area, lev, passes \div 2)} |->
            After(half, FloodLoop(c, nb, half, r, area, lev, passes - passes \div 2))])
    ELSE LET ci == acc.stack[Len(acc.stack)]
             rest == SubSeq(acc.stack, 1, Len(acc.stack) - 1)
             ar == FloodConflict(c, nb, acc.srcReg, ci, r, area, 0)
         IN IF ar # 0
            THEN [acc EXCEPT !.stack = rest, !.srcReg[ci + 1] = 0,
                             !.unlabelled = Append(@, [span |-> ci, r |-> r,
                                                       ar |-> ar])]
            ELSE LET grown == FloodExpand(c, nb,
                                  [srcReg |-> acc.srcReg, srcDist |-> acc.srcDist,
                                   stack |-> rest],
                                  ci, r, area, lev, 0)
                 IN [srcReg |-> grown.srcReg, srcDist |-> grown.srcDist,
                     stack |-> grown.stack, count |-> acc.count + 1,
                     unlabelled |-> acc.unlabelled]

\* A span is pushed by the call or by one of its four neighbours as that
\* neighbour is kept, and a span is kept once: the stack loop pops at most
\* 4 * spanCount + 1 entries.
floodRegion(i, level, r, c, nb, srcReg, srcDist) ==
    LET lev == IF level >= 2 THEN level - 2 ELSE 0
        flooded == FloodLoop(c, nb,
                       [srcReg |-> [srcReg EXCEPT ![i + 1] = r],
                        srcDist |-> [srcDist EXCEPT ![i + 1] = 0],
                        stack |-> <<i>>, count |-> 0, unlabelled |-> <<>>],
                       r, c.areas[i], lev, 4 * c.spanCount + 1)
    IN [ok |-> flooded.count > 0, srcReg |-> flooded.srcReg, srcDist |-> flooded.srcDist,
        unlabelled |-> flooded.unlabelled]

\* The label and distance span i would take from its labelled neighbours:
\* pick = [r, d2], scanning the directions in order.
RECURSIVE NearestRegion(_, _, _, _, _, _, _)
NearestRegion(c, nb, srcReg, srcDist, i, dir, pick) ==
    IF dir > 3 THEN pick
    ELSE LET ai == nb[i + 1][dir + 1]
         IN IF /\ ai # -1
               /\ c.areas[ai] = c.areas[i]
               /\ srcReg[ai + 1] > 0
               /\ ~HasBorderFlag(srcReg[ai + 1])
               /\ srcDist[ai + 1] + 2 < pick.d2
            THEN NearestRegion(c, nb, srcReg, srcDist, i, dir + 1,
                               [r |-> srcReg[ai + 1], d2 |-> srcDist[ai + 1] + 2])
            ELSE NearestRegion(c, nb, srcReg, srcDist, i, dir + 1, pick)

\* One round of expandRegions over the stack: acc = [stack, dirty, failed];
\* srcReg and srcDist are read as they were before the round.
\* The round runs over the entries j..last of the stack.
RECURSIVE ExpandRound(_, _, _, _, _, _, _)
ExpandRound(c, nb, srcReg, srcDist, acc, j, last) ==
    IF j > last THEN acc
    ELSE IF last > j
    THEN Only([half \in {ExpandRound(c, nb, srcReg, srcDist, acc, j,
                                     (j + last) \div 2)} |->
            After(half, ExpandRound(c, nb, srcReg, srcDist, half,
                                    (j + last) \div 2 + 1, last))])
    ELSE LET i == acc.stack[j]
         IN IF i < 0
            THEN [acc EXCEPT !.failed = @ + 1]
            ELSE LET pick == NearestRegion(c, nb, srcReg, srcDist, i, 0,
                                           [r |-> srcReg[i + 1], d2 |-> 65535])
                 IN IF pick.r # 0
                    THEN [acc EXCEPT !.stack[j] = -1,
                                     !.dirty = Append(@, <<i, pick.r, pick.d2>>)]
                    ELSE [acc EXCEPT !.failed = @ + 1]

\* The dirty entries from entry k on written into the array, each element
\* taking the value of the last entry that names it.
ApplyDirty(arr, dirty, field, k) ==
    [m \in 1..Len(arr) |->
        IF \E e \in k..Len(dirty) : dirty[e][1] + 1 = m
        THEN dirty[SetMax({e \in k..Len(dirty) : dirty[e][1] + 1 = m})][field]
        ELSE arr[m]] \o <<>>

\* The while loop of expandRegions: acc = [srcReg, srcDist, stack].
RECURSIVE ExpandLoop(_, _, _, _, _, _)
ExpandLoop(c, nb, acc, maxIter, level, iter) ==
    IF acc.stack = <<>> THEN acc
    ELSE LET round == ExpandRound(c, nb, acc.srcReg, acc.srcDist,
                                  [stack |-> acc.stack, dirty |-> <<>>, failed |-> 0],
                                  1, Len(acc.stack))
             next == [srcReg |-> ApplyDirty(acc.srcReg, round.dirty, 2, 1),
                      srcDist |-> ApplyDirty(acc.srcDist, round.dirty, 3, 1),
                      stack |-> round.stack]
         IN IF round.failed = Len(round.stack) THEN next
            ELSE IF level > 0 /\ iter + 1 >= maxIter THEN next
                 ELSE ExpandLoop(c, nb, next, maxIter, level,
                                 IF level > 0 THEN iter + 1 ELSE iter)

expandRegions(maxIter, level, c, nb, srcReg, srcDist, stack, fillStack) ==
    LET filled == SelectSeq([k \in 1..c.spanCount |-> k - 1],
                            LAMBDA i : /\ c.dist[i] >= level
                                       /\ srcReg[i + 1] = 0
                                       /\ c.areas[i] # RC_NULL_AREA)
        marked == [j \in 1..Len(stack) |->
                      IF stack[j] >= 0 /\ srcReg[stack[j] + 1] # 0 THEN -1 ELSE stack[j]]
                  \o <<>>
    IN ExpandLoop(c, nb,
                  [srcReg |-> srcReg, srcDist |-> srcDist,
                   stack |-> IF fillStack THEN filled ELSE marked],
                  maxIter, level, 0)

\* The stack (0..nbStacks-1) a span falls into, nbStacks or more if none.
StackOfSpan(c, startLevel, loglevelsPerStack, i) ==
    LET sId == (startLevel \div (2 ^ loglevelsPerStack))
               - (c.dist[i] \div (2 ^ loglevelsPerStack))
    IN IF sId < 0 THEN 0 ELSE sId

sortCellsByLevel(startLevel, c, srcReg, nbStacks, loglevelsPerStack) ==
    [s \in 1..nbStacks |->
        SelectSeq([k \in 1..c.spanCount |-> k - 1],
                  LAMBDA i : /\ c.areas[i] # RC_NULL_AREA
                             /\ srcReg[i + 1] = 0
                             /\ StackOfSpan(c, startLevel, loglevelsPerStack, i) = s - 1)]
    \o <<>>

appendStacks(srcStack, dstStack, srcReg) ==
    dstStack \o SelectSeq(srcStack, LAMBDA i : i >= 0 /\ srcReg[i + 1] = 0)

\* Constants of rcBuildRegions.
LOG_NB_STACKS == 3
NB_STACKS == 2 ^ LOG_NB_STACKS
expandIters == 8

\* The flood loop over one level stack:
\* acc = [srcReg, srcDist, regionId, overflow, unlabelled].
\* The loop runs over the entries j..last of the stack.
RECURSIVE FloodStack(_, _, _, _, _, _, _)
FloodStack(c, nb, stack, j, last, level, acc) ==
    IF acc.overflow \/ j > last THEN acc
    ELSE IF last > j
    THEN Only([half \in {FloodStack(c, nb, stack, j, (j + last) \div 2, level, acc)} |->
            After(half, FloodStack(c, nb, stack, (j + last) \div 2 + 1, last, level,
                                   half))])
    ELSE IF stack[j] >= 0 /\ acc.srcReg[stack[j] + 1] = 0
         THEN Only([flooded \in {floodRegion(stack[j], level, acc.regionId, c, nb,
                               acc.srcReg, acc.srcDist)} |->
                 [srcReg |-> flooded.srcReg, srcDist |-> flooded.srcDist,
                  regionId |-> IF flooded.ok /\ acc.regionId # 65535
                               THEN acc.regionId + 1 ELSE acc.regionId,
                  overflow |-> flooded.ok /\ acc.regionId = 65535,
                  unlabelled |-> acc.unlabelled \o flooded.unlabelled]])
         ELSE acc

\* The level loop, as far as the pass that brings the level down to `last`:
\* st = [level, sId, lvlStacks, srcReg, srcDist, regionId, overflow, levels].
RECURSIVE WatershedLoop(_, _, _, _)
WatershedLoop(c, nb, st, last) ==
    IF st.level <= last \/ st.overflow THEN st
    ELSE LET level == IF st.level >= 2 THEN st.level - 2 ELSE 0
             sId == (st.sId + 1) % NB_STACKS
         IN Only([stacks \in {IF sId = 0
                 THEN sortCellsByLevel(level, c, st.srcReg, NB_STACKS, 1)
                 ELSE [st.lvlStacks EXCEPT ![sId + 1] =
                          appendStacks(st.lvlStacks[sId], @, st.srcReg)]} |->
            Only([expanded \in {expandRegions(expandIters, level, c, nb, st.srcReg, st.srcDist,
                               stacks[sId + 1], FALSE)} |->
            Only([flooded \in {FloodStack(c, nb, expanded.stack, 1, Len(expanded.stack),
                            level,
                            [srcReg |-> expanded.srcReg, srcDist |-> expanded.srcDist,
                             regionId |-> st.regionId, overflow |-> FALSE,
                             unlabelled |-> <<>>])}
                 |->
              WatershedLoop(c, nb,
                [level |-> level, sId |-> sId,
                 lvlStacks |-> [stacks EXCEPT ![sId + 1] = expanded.stack],
                 srcReg |-> flooded.srcReg, srcDist |-> flooded.srcDist,
                 regionId |-> flooded.regionId, overflow |-> flooded.overflow,
                 levels |-> Append(st.levels, [level |-> level,
                                               unlabelled |-> flooded.unlabelled])],
                last)])])])

\* The mutant starts at maxDistance rounded down to an even number.
StartLevelRoundedDown(maxDistance) == (maxDistance \div 2) * 2

\* unsigned short level = (chf.maxDistance+1) & ~1.
StartLevel(maxDistance) == (((maxDistance + 1) % 65536) \div 2) * 2

rcBuildRegions(c, borderSize, minRegionArea, mergeRegionArea) ==
    Only([nb \in {LinkTable(c, 0)} |->
    Only([col \in {ColumnTable(c, 0)} |->
    Only([zeros \in {[k \in 1..c.spanCount |-> 0] \o <<>>} |->
    Only([painted \in {PaintBorders(c, col, borderSize, 1, zeros)} |->
    Only([flooded \in {WatershedLoop(c, nb,
             [level |-> StartLevel(c.maxDistance), sId |-> -1,
              lvlStacks |-> [s \in 1..NB_STACKS |-> <<>>],
              srcReg |-> painted.srcReg, srcDist |-> zeros,
              regionId |-> painted.id, overflow |-> FALSE, levels |-> <<>>], 0)} |->
       IF flooded.overflow
       THEN [ok |-> FALSE, chf |-> [c EXCEPT !.borderSize = borderSize],
             overlaps |-> <<>>, partitioned |-> flooded.srcReg, regions |-> <<>>,
             levels |-> flooded.levels]
       ELSE
    Only([expanded \in {expandRegions(expandIters * 8, 0, c, nb, flooded.srcReg,
                       flooded.srcDist, <<>>, TRUE)} |->
    Only([post \in {mergeAndFilterRegions(minRegionArea, mergeRegionArea, flooded.regionId,
                               c, nb, col, expanded.srcReg)} |->
            [ok |-> TRUE,
             chf |-> [c EXCEPT !.borderSize = borderSize,
                               !.maxRegions = post.maxRegionId,
                               !.spans = [i \in DOMAIN c.spans |->
                                             [c.spans[i] EXCEPT !.reg = post.srcReg[i + 1]]]],
             overlaps |-> post.overlaps,
             partitioned |-> expanded.srcReg,
             regions |-> post.regions,
             levels |-> flooded.levels]])])])])])])])

---------------------------------------------------------------------------
(* Specification SpecRegions: compaction, then one of the three            *)
(* partitioners on the compact heightfield.                                 *)

\* borderSize ranges over 0..MaxBorderSize.
MaxBorderSize == 1
\* minRegionArea is 0 or MaxMinRegionArea.
MaxMinRegionArea == 2
\* mergeRegionArea is 0 or MaxMergeRegionArea.
MaxMergeRegionArea == 4
\* Side of the small single-layer grids.
SmallGridSize == 3
\* Sides of the large single-layer grids: MaxGridSize - 2 and MaxGridSize.
MaxGridSize == 7

PartitionTypes == {"watershed", "monotone", "layers"}

\* One span [0, 1) of the given area.
FlatChain(area) == <<[smin |-> 0, smax |-> 1, area |-> area]>>

\* n x n heightfields, every column empty or one walkable span.
PatchGrids(n) == Heightfields(n, n, {<<>>, FlatChain(RC_WALKABLE_AREA)})

\* n x n heightfields, every column one walkable span but the centre column,
\* which holds the chain centre, and the eight columns around it, which are
\* all empty or all walkable.
CentreGrids(n, centres) ==
    {[width |-> n, height |-> n,
      spans |-> [k \in 0..(n * n - 1) |->
                    LET dx == rcAbs((k % n) - (n \div 2))
                        dy == rcAbs((k \div n) - (n \div 2))
                    IN IF dx = 0 /\ dy = 0 THEN centre
                       ELSE IF dx <= 1 /\ dy <= 1 THEN moat
                       ELSE FlatChain(RC_WALKABLE_AREA)]] :
        centre \in centres, moat \in {<<>>, FlatChain(RC_WALKABLE_AREA)}}

CentreChains ==
    {<<>>, FlatChain(RC_NULL_AREA), FlatChain(1), FlatChain(RC_WALKABLE_AREA)}

\* 3 x 6 heightfields: a walkable 3 x 3 patch, an empty row, then column
\* (0, 4) with a span of area `low` below an optional walkable span, and
\* column (0, 5), empty or one walkable span.
OverhangGrids ==
    {[width |-> 3, height |-> 6,
      spans |-> [k \in 0..17 |->
                    CASE k < 9 -> FlatChain(RC_WALKABLE_AREA)
                      [] k = 0 + 4 * 3 -> FlatChain(low) \o upper
                      [] k = 0 + 5 * 3 -> next
                      [] OTHER -> <<>>]] :
        low \in {1, RC_WALKABLE_AREA},
        upper \in {<<>>, <<[smin |-> 4, smax |-> 5, area |-> RC_WALKABLE_AREA]>>},
        next \in {<<>>, FlatChain(RC_WALKABLE_AREA)}}

InitRegions ==
    /\ \/ /\ \E shape \in {<<2, 1>>, <<1, 2>>} :
                hf \in Heightfields(shape[1], shape[2],
                                    ChainsFrom(0, MaxChainHeight, MaxChainSpans,
                                               {RC_WALKABLE_AREA}))
          /\ \E wh \in 3..(3 + ExtraWalkableHeight), wc \in {0, MaxClimb},
                ma \in {0, MaxMinRegionArea}, pt \in PartitionTypes :
                cfg = [DefaultCfg EXCEPT !.walkableHeight = wh, !.walkableClimb = wc,
                                         !.minRegionArea = ma, !.partitionType = pt]
       \/ /\ \/ hf \in PatchGrids(SmallGridSize)
             \/ \E n \in {MaxGridSize - 2, MaxGridSize} : hf \in CentreGrids(n, CentreChains)
          /\ \E bs \in 0..MaxBorderSize, ma \in {0, MaxMinRegionArea},
                mg \in {0, MaxMergeRegionArea}, pt \in PartitionTypes :
                cfg = [DefaultCfg EXCEPT !.borderSize = bs, !.minRegionArea = ma,
                                         !.mergeRegionArea = mg, !.partitionType = pt]
       \/ /\ hf \in OverhangGrids
          /\ \E wc \in {0, MaxClimb}, ma \in {0, MaxMinRegionArea}, pt \in PartitionTypes :
                cfg = [DefaultCfg EXCEPT !.walkableClimb = wc, !.minRegionArea = ma,
                                         !.partitionType = pt]
    /\ chf = NoChf
    /\ pc = "compact"
    /\ ret = "none"
    /\ log = {}
    /\ added = EmptyBag
    /\ preReg = <<>>
    /\ regTable = <<>>
    /\ floodId = 0
    /\ levels = <<>>
    /\ locals = <<>>
    /\ ub = {}
    /\ stages = <<>>

\* A partitioner that could not allocate its work arrays.
PartitionOutOfMemory(message) ==
    /\ ret' = FALSE
    /\ pc' = "failed"
    /\ log' = log \cup {message}
    /\ UNCHANGED <<hf, cfg, locals, levels, chf, added, preReg, regTable, floodId, ub, stages>>

\* A partitioner that returned true with the result r, having logged the
\* messages in logged.
PartitionDone(r, logged) ==
    /\ chf' = r.chf
    /\ preReg' = r.partitioned
    /\ regTable' = r.regions
    /\ levels' = (IF "levels" \in DOMAIN r THEN r.levels ELSE <<>>)
    /\ ret' = TRUE
    /\ pc' = "regions"
    /\ log' = log \cup logged
    /\ UNCHANGED <<hf, cfg, locals, added, floodId, stages>>

\* rcBuildDistanceField(ctx, chf), the first step of the watershed partitioning.
BuildDistanceField(oom) ==
    /\ pc \in {"compacted", "eroded"}
    /\ cfg.partitionType = "watershed"
    /\ IF oom
       THEN /\ ret' = FALSE
            /\ pc' = "failed"
            /\ log' = log \cup {"rcBuildDistanceField: Out of memory 'src'."}
            /\ UNCHANGED chf
       ELSE /\ chf' = rcBuildDistanceField(chf)
            /\ ret' = TRUE
            /\ pc' = "distance"
            /\ UNCHANGED log
    /\ UNCHANGED <<hf, cfg, locals, levels, added, preReg, regTable, floodId, ub, stages>>

\* rcBuildRegions returns false when the region IDs overflow, and logs the
\* overlapping regions that mergeAndFilterRegions reports.
RegionsOutcome(r) ==
    IF r.ok
    THEN /\ PartitionDone(r, IF r.overlaps # <<>>
                             THEN {"rcBuildRegions: overlapping regions."} ELSE {})
         /\ UNCHANGED ub
    ELSE PartitionOutOfMemory("rcBuildRegions: Region ID overflow")

\* rcBuildRegions(ctx, chf, borderSize, minRegionArea, mergeRegionArea).
BuildRegions(oom) ==
    /\ pc = "distance"
    /\ cfg.partitionType = "watershed"
    /\ IF oom
       THEN PartitionOutOfMemory("rcBuildRegions: Out of memory 'tmp'.")
       ELSE RegionsOutcome(rcBuildRegions(chf, cfg.borderSize, cfg.minRegionArea,
                                          cfg.mergeRegionArea))

\* The row sweep of the monotone and the layer partitioner writes sweeps[rid]
\* for every sweep a row opens into an array of max(width, height) entries.
\* A write past the array is undefined: the entries are either read back as
\* written, or the process faults.
SweepOutcome(r, outcome) ==
    IF r.sweepsOverflow
    THEN /\ ub' = ub \cup {"sweeps"}
         /\ IF outcome = "faults"
            THEN /\ pc' = "crashed"
                 /\ UNCHANGED <<hf, cfg, locals, levels, chf, ret, log, added, preReg, regTable, floodId, stages>>
            ELSE PartitionDone(r, {})
    ELSE /\ outcome = "continues"
         /\ PartitionDone(r, {})
         /\ UNCHANGED ub

\* rcBuildRegionsMonotone(ctx, chf, borderSize, minRegionArea, mergeRegionArea).
BuildRegionsMonotone(oom, outcome) ==
    /\ pc \in {"compacted", "eroded"}
    /\ cfg.partitionType = "monotone"
    /\ IF oom
       THEN outcome = "continues"
            /\ PartitionOutOfMemory("rcBuildRegionsMonotone: Out of memory 'src'.")
       ELSE SweepOutcome(rcBuildRegionsMonotone(chf, cfg.borderSize, cfg.minRegionArea,
                                                cfg.mergeRegionArea), outcome)

\* rcBuildLayerRegions(ctx, chf, borderSize, minRegionArea).
BuildLayerRegions(oom, outcome) ==
    /\ pc \in {"compacted", "eroded"}
    /\ cfg.partitionType = "layers"
    /\ IF oom
       THEN outcome = "continues"
            /\ PartitionOutOfMemory("rcBuildLayerRegions: Out of memory 'src'.")
       ELSE SweepOutcome(rcBuildLayerRegions(chf, cfg.borderSize, cfg.minRegionArea),
                         outcome)

NextRegions ==
    \/ BuildCompactHeightfield
    \/ \E oom \in BOOLEAN : BuildDistanceField(oom)
    \/ \E oom \in BOOLEAN : BuildRegions(oom)
    \/ \E oom \in BOOLEAN, outcome \in {"continues", "faults"} :
          BuildRegionsMonotone(oom, outcome)
    \/ \E oom \in BOOLEAN, outcome \in {"continues", "faults"} :
          BuildLayerRegions(oom, outcome)

SpecRegions == InitRegions /\ [][NextRegions]_vars

---------------------------------------------------------------------------
(* Specification SpecLoops: the two loops of the partitioners without a     *)
(* bound on their passes, one step per pass.  A run starts where             *)
(* rcBuildRegions enters its last call of expandRegions (level 0, no cap on  *)
(* the passes), or where rcBuildRegionsMonotone enters the merge loop of     *)
(* mergeAndFilterRegions.  The contour walks, whose loop counts its passes   *)
(* up to the cap, are part of the step that gathers the region table.        *)

\* The regions gathered from srcReg and filtered, as the merge loop of
\* mergeAndFilterRegions finds them.
MergeEntry(c, srcReg, maxRegionId, minRegionArea) ==
    [srcReg |-> srcReg, nreg |-> maxRegionId + 1, passes |-> 0,
     regions |-> RemoveSmallRegions(
                     GatherRegions(c, LinkTable(c, 0), ColumnTable(c, 0), srcReg,
                                   maxRegionId + 1,
                                   [i \in 1..(maxRegionId + 1) |-> rcRegion(i - 1)] \o <<>>, 0,
                                   c.spanCount),
                     maxRegionId + 1, minRegionArea, 0)]

\* The locals of expandRegions at level 0 as it enters its while loop, the
\* stack filled by the function (the last call of rcBuildRegions).
FinalExpandEntry(c, srcReg, srcDist, regionId) ==
    [srcReg |-> srcReg, srcDist |-> srcDist, regionId |-> regionId, passes |-> 0,
     final |-> TRUE,
     stack |-> SelectSeq([k \in 1..c.spanCount |-> k - 1],
                         LAMBDA i : /\ c.dist[i] >= 0
                                    /\ srcReg[i + 1] = 0
                                    /\ c.areas[i] # RC_NULL_AREA)]

\* The locals of the first call of expandRegions at level 0: the call of
\* the last pass of the level loop, on the stack of that pass, or the last
\* call of rcBuildRegions where maxDistance is 0 and the level loop makes
\* no pass.
ExpandEntry(c, borderSize) ==
    Only([zeros \in {[k \in 1..c.spanCount |-> 0] \o <<>>} |->
    Only([painted \in {PaintBorders(c, ColumnTable(c, 0), borderSize, 1, zeros)} |->
    Only([st \in {WatershedLoop(c, LinkTable(c, 0),
                      [level |-> StartLevel(c.maxDistance), sId |-> -1,
                       lvlStacks |-> [s \in 1..NB_STACKS |-> <<>>],
                       srcReg |-> painted.srcReg, srcDist |-> zeros,
                       regionId |-> painted.id, overflow |-> FALSE, levels |-> <<>>],
                      2)} |->
       IF st.level = 0 THEN FinalExpandEntry(c, st.srcReg, st.srcDist, st.regionId)
       ELSE
    Only([sId \in {(st.sId + 1) % NB_STACKS} |->
    Only([stack \in {IF sId = 0
                     THEN sortCellsByLevel(0, c, st.srcReg, NB_STACKS, 1)[1]
                     ELSE appendStacks(st.lvlStacks[sId], st.lvlStacks[sId + 1],
                                       st.srcReg)} |->
       [srcReg |-> st.srcReg, srcDist |-> st.srcDist, regionId |-> st.regionId,
        passes |-> 0, final |-> FALSE,
        stack |-> [j \in 1..Len(stack) |->
                      IF stack[j] >= 0 /\ st.srcReg[stack[j] + 1] # 0 THEN -1
                      ELSE stack[j]] \o <<>>]])])])])])

\* The end of a call of expandRegions at level 0: after the call of the
\* level loop the floods of the pass and the entry into the last call, after
\* the last call the entry into the merge loop of mergeAndFilterRegions.
ExpandExit(c, l, srcReg, srcDist, minRegionArea) ==
    IF l.final
    THEN [pc |-> "merging", locals |-> MergeEntry(c, srcReg, l.regionId, minRegionArea)]
    ELSE Only([flooded \in {FloodStack(c, LinkTable(c, 0), l.stack, 1, Len(l.stack), 0,
                               [srcReg |-> srcReg, srcDist |-> srcDist,
                                regionId |-> l.regionId, overflow |-> FALSE,
                                unlabelled |-> <<>>])} |->
            [pc |-> IF flooded.overflow THEN "failed" ELSE "expanding",
             locals |-> FinalExpandEntry(c, flooded.srcReg, flooded.srcDist,
                                         flooded.regionId)]])

InitLoops ==
    /\ hf \in PatchGrids(SmallGridSize)
             \cup Heightfields(SmallGridSize + 2, SmallGridSize + 2,
                               {FlatChain(RC_WALKABLE_AREA)})
    /\ \E bs \in 0..MaxBorderSize, mg \in {0, MaxMergeRegionArea},
          pt \in {"watershed", "monotone"} :
          cfg = [DefaultCfg EXCEPT !.borderSize = bs, !.mergeRegionArea = mg,
                                   !.partitionType = pt]
    /\ chf = IF cfg.partitionType = "watershed"
             THEN rcBuildDistanceField(
                      rcBuildCompactHeightfield(cfg.walkableHeight, cfg.walkableClimb, hf).chf)
             ELSE rcBuildCompactHeightfield(cfg.walkableHeight, cfg.walkableClimb, hf).chf
    /\ pc = IF cfg.partitionType = "watershed" THEN "expanding" ELSE "merging"
    /\ locals = IF cfg.partitionType = "watershed" THEN ExpandEntry(chf, cfg.borderSize)
                ELSE Only([col \in {ColumnTable(chf, 0)} |->
                     Only([painted \in {PaintBorders(chf, col, cfg.borderSize, 1,
                                            [k \in 1..chf.spanCount |-> 0] \o <<>>)} |->
                     Only([swept \in {SweepRows(chf, LinkTable(chf, 0), col,
                                          cfg.borderSize, cfg.borderSize,
                                          [srcReg |-> painted.srcReg, id |-> painted.id,
                                           maxSweep |-> 0])} |->
                        MergeEntry(chf, swept.srcReg, swept.id, cfg.minRegionArea)])])])
    /\ ret = TRUE
    /\ log = {}
    /\ added = EmptyBag
    /\ preReg = <<>>
    /\ regTable = <<>>
    /\ floodId = 0
    /\ levels = <<>>
    /\ ub = {}
    /\ stages = <<>>

\* A pass of the while loop that ends only when the stack is empty.
ExpandPassNoBreak ==
    /\ pc = "expanding"
    /\ \E r \in {Only([round \in {ExpandRound(chf, LinkTable(chf, 0), locals.srcReg,
                                     locals.srcDist,
                                     [stack |-> locals.stack, dirty |-> <<>>,
                                      failed |-> 0], 1, Len(locals.stack))} |->
                 IF locals.stack = <<>>
                 THEN ExpandExit(chf, locals, locals.srcReg, locals.srcDist,
                                 cfg.minRegionArea)
                 ELSE [pc |-> "expanding",
                       locals |-> [locals EXCEPT
                           !.srcReg = ApplyDirty(locals.srcReg, round.dirty, 2, 1),
                           !.srcDist = ApplyDirty(locals.srcDist, round.dirty, 3, 1),
                           !.stack = round.stack, !.passes = @ + 1]]])} :
          pc' = r.pc /\ locals' = r.locals
    /\ UNCHANGED <<hf, cfg, chf, ret, log, added, preReg, regTable, ub, floodId, levels,
                   stages>>

\* One pass of the while loop of expandRegions at level 0, or the end of the
\* loop and what follows it up to the next loop.
ExpandPass ==
    /\ pc = "expanding"
    /\ \E r \in {Only([round \in {ExpandRound(chf, LinkTable(chf, 0), locals.srcReg,
                                     locals.srcDist,
                                     [stack |-> locals.stack, dirty |-> <<>>,
                                      failed |-> 0], 1, Len(locals.stack))} |->
                 IF locals.stack = <<>>
                 THEN ExpandExit(chf, locals, locals.srcReg, locals.srcDist,
                                 cfg.minRegionArea)
                 ELSE IF round.failed = Len(round.stack)
                 THEN ExpandExit(chf, [locals EXCEPT !.stack = round.stack],
                                 ApplyDirty(locals.srcReg, round.dirty, 2, 1),
                                 ApplyDirty(locals.srcDist, round.dirty, 3, 1),
                                 cfg.minRegionArea)
                 ELSE [pc |-> "expanding",
                       locals |-> [locals EXCEPT
                           !.srcReg = ApplyDirty(locals.srcReg, round.dirty, 2, 1),
                           !.srcDist = ApplyDirty(locals.srcDist, round.dirty, 3, 1),
                           !.stack = round.stack, !.passes = @ + 1]]])} :
          pc' = r.pc /\ locals' = r.locals
    /\ UNCHANGED <<hf, cfg, chf, ret, log, added, preReg, regTable, ub, floodId, levels,
                   stages>>

\* One pass of the do-while loop of mergeAndFilterRegions; after a pass
\* without a merge, the rest of the function and the return.
MergeRegionsPass ==
    /\ pc = "merging"
    /\ \E r \in {Only([pass \in {MergePass([regions |-> locals.regions, mergeCount |-> 0],
                                    locals.nreg, cfg.mergeRegionArea, 0)} |->
                 IF pass.mergeCount > 0
                 THEN [pc |-> "merging", chf |-> chf, preReg |-> preReg,
                       regTable |-> regTable, log |-> log,
                       locals |-> [locals EXCEPT !.regions = pass.regions,
                                                  !.passes = @ + 1]]
                 ELSE
                 Only([compressed \in {CompressIds([regions |-> MarkRemap(pass.regions),
                                                    regIdGen |-> 0], locals.nreg, 0)} |->
                 Only([srcReg \in {RemapSpans(locals.srcReg, compressed.regions)} |->
                      [pc |-> "regions",
                       chf |-> [chf EXCEPT !.borderSize = cfg.borderSize,
                                           !.maxRegions = compressed.regIdGen,
                                           !.spans = [i \in DOMAIN chf.spans |->
                                                         [chf.spans[i] EXCEPT
                                                             !.reg = srcReg[i + 1]]]],
                       preReg |-> locals.srcReg,
                       regTable |-> pass.regions,
                       log |-> IF \E j \in 1..locals.nreg : compressed.regions[j].overlap
                               THEN log \cup {"rcBuildRegions: overlapping regions."}
                               ELSE log,
                       locals |-> <<>>]])])])} :
          /\ pc' = r.pc
          /\ chf' = r.chf
          /\ preReg' = r.preReg
          /\ regTable' = r.regTable
          /\ log' = r.log
          /\ locals' = r.locals
    /\ ret' = TRUE
    /\ UNCHANGED <<hf, cfg, added, ub, floodId, levels, stages>>

SpecLoops == InitLoops /\ [][ExpandPass \/ MergeRegionsPass]_vars

---------------------------------------------------------------------------
(* Specification SpecFlood: the region IDs that the flood loop of           *)
(* rcBuildRegions hands out, one step per call of floodRegion.  The spans   *)
(* are left out: floodRegion either keeps the label r on a span and returns *)
(* true, or unlabels every span it visited and returns false, and preReg    *)
(* holds the label that the latest kept flood left in srcReg.               *)

\* Without a border the IDs start at 1, with one at 5, after the four
\* border regions.
InitFlood ==
    /\ hf = rcCreateHeightfield(1, 1)
    /\ \E bs \in 0..MaxBorderSize : cfg = [DefaultCfg EXCEPT !.borderSize = bs]
    /\ chf = NoChf
    /\ pc = "flooding"
    /\ ret = "none"
    /\ log = {}
    /\ added = EmptyBag
    /\ preReg = <<>>
    /\ regTable = <<>>
    /\ floodId = (IF cfg.borderSize > 0 THEN 1 + 4 ELSE 1)
    /\ levels = <<>>
    /\ locals = <<>>
    /\ ub = {}
    /\ stages = <<>>

\* The flood loop without the test of regionId.
FloodOneRegionUnchecked(kept) ==
    /\ pc = "flooding"
    /\ IF ~kept
       THEN UNCHANGED <<preReg, floodId>>
       ELSE preReg' = <<floodId>> /\ floodId' = (floodId + 1) % 65536
    /\ UNCHANGED <<hf, cfg, locals, levels, chf, pc, ret, log, added, regTable, ub, stages>>

\* One pass of the flood loop for an unlabelled span: floodRegion(x, y, i,
\* level, regionId, ...) and the test of regionId that follows a kept flood.
FloodOneRegion(kept) ==
    /\ pc = "flooding"
    /\ IF ~kept
       THEN UNCHANGED <<preReg, floodId, pc, ret, log>>
       ELSE /\ preReg' = <<floodId>>
            /\ IF floodId = 65535
               THEN /\ log' = log \cup {"rcBuildRegions: Region ID overflow"}
                    /\ ret' = FALSE
                    /\ pc' = "failed"
                    /\ UNCHANGED floodId
               ELSE /\ floodId' = (floodId + 1) % 65536
                    /\ UNCHANGED <<pc, ret, log>>
    /\ UNCHANGED <<hf, cfg, locals, levels, chf, added, regTable, ub, stages>>

\* The level loop has run out: the postprocessing follows and rcBuildRegions
\* returns true.
FloodsDone ==
    /\ pc = "flooding"
    /\ pc' = "regions"
    /\ ret' = TRUE
    /\ UNCHANGED <<hf, cfg, locals, levels, chf, log, added, preReg, regTable, ub, floodId, stages>>

SpecFlood ==
    InitFlood /\ [][(\E kept \in BOOLEAN : FloodOneRegion(kept)) \/ FloodsDone]_vars

---------------------------------------------------------------------------
(* Span filters: rcFilterLowHangingWalkableObstacles, rcFilterLedgeSpans   *)
(* and rcFilterWalkableLowHeightSpans (RecastFilter.cpp).                   *)

MAX_HEIGHTFIELD_HEIGHT == 65535

\* The span loop of rcFilterLowHangingWalkableObstacles over one column,
\* from span k: the mutant carries the area written by the pass forward as
\* the walkable flag of the previous span.
RECURSIVE LowHangingColumnCascades(_, _, _, _, _)
LowHangingColumnCascades(chain, k, previousWasWalkable, previousAreaID, walkableClimb) ==
    IF k > Len(chain) THEN <<>>
    ELSE LET walkable == chain[k].area # RC_NULL_AREA
             area == IF /\ ~walkable
                        /\ previousWasWalkable
                        /\ chain[k].smax - chain[k - 1].smax <= walkableClimb
                     THEN previousAreaID ELSE chain[k].area
         IN <<[chain[k] EXCEPT !.area = area]>>
            \o LowHangingColumnCascades(chain, k + 1, area # RC_NULL_AREA, area,
                                        walkableClimb)

\* The span loop of rcFilterLowHangingWalkableObstacles over one column,
\* from span k, with the loop's three locals.
RECURSIVE LowHangingColumn(_, _, _, _, _)
LowHangingColumn(chain, k, previousWasWalkable, previousAreaID, walkableClimb) ==
    IF k > Len(chain) THEN <<>>
    ELSE LET walkable == chain[k].area # RC_NULL_AREA
             area == IF /\ ~walkable
                        /\ previousWasWalkable
                        /\ chain[k].smax - chain[k - 1].smax <= walkableClimb
                     THEN previousAreaID ELSE chain[k].area
         IN <<[chain[k] EXCEPT !.area = area]>>
            \o LowHangingColumn(chain, k + 1, walkable, area, walkableClimb)

rcFilterLowHangingWalkableObstacles(walkableClimb, heightfield) ==
    [heightfield EXCEPT
        !.spans = [col \in DOMAIN heightfield.spans |->
                     LowHangingColumn(heightfield.spans[col], 1, FALSE, RC_NULL_AREA,
                                      walkableClimb)]]

\* The loop of rcFilterLedgeSpans over the spans of one neighbouring column,
\* from span k; acc holds lowestNeighborFloorDifference and the lowest and
\* highest traversable neighbour floor.
RECURSIVE LedgeColumnScan(_, _, _, _, _, _, _)
LedgeColumnScan(chain, k, floor, ceiling, walkableHeight, walkableClimb, acc) ==
    IF k > Len(chain) THEN acc
    ELSE LET neighborFloor == chain[k].smax
             neighborCeiling == IF k < Len(chain) THEN chain[k + 1].smin
                                ELSE MAX_HEIGHTFIELD_HEIGHT
             difference == neighborFloor - floor
             lowest == rcMin(acc.lowest, difference)
         IN IF rcMin(ceiling, neighborCeiling) - rcMax(floor, neighborFloor) < walkableHeight
            THEN LedgeColumnScan(chain, k + 1, floor, ceiling, walkableHeight,
                                 walkableClimb, acc)
            ELSE IF rcAbs(difference) <= walkableClimb
            THEN LedgeColumnScan(chain, k + 1, floor, ceiling, walkableHeight,
                                 walkableClimb,
                                 [lowest |-> lowest,
                                  lowestFloor |-> rcMin(acc.lowestFloor, neighborFloor),
                                  highestFloor |-> rcMax(acc.highestFloor, neighborFloor)])
            ELSE IF difference < -walkableClimb
            THEN [acc EXCEPT !.lowest = lowest]
            ELSE LedgeColumnScan(chain, k + 1, floor, ceiling, walkableHeight,
                                 walkableClimb, [acc EXCEPT !.lowest = lowest])

\* The direction loop of the mutant: a neighbour outside the grid is skipped.
RECURSIVE LedgeDirectionsInsideOnly(_, _, _, _, _, _, _, _, _)
LedgeDirectionsInsideOnly(heightfield, x, z, floor, ceiling, walkableHeight, walkableClimb, direction, acc) ==
    IF direction >= 4 THEN acc
    ELSE LET neighborX == x + rcGetDirOffsetX(direction)
             neighborZ == z + rcGetDirOffsetY(direction)
         IN IF \/ neighborX < 0 \/ neighborZ < 0
               \/ neighborX >= heightfield.width \/ neighborZ >= heightfield.height
            THEN LedgeDirectionsInsideOnly(heightfield, x, z, floor, ceiling,
                                           walkableHeight, walkableClimb,
                                           direction + 1, acc)
            ELSE LET chain == heightfield.spans[neighborX + neighborZ * heightfield.width]
                     neighborCeiling == IF chain # <<>> THEN chain[1].smin
                                        ELSE MAX_HEIGHTFIELD_HEIGHT
                 IN IF rcMin(ceiling, neighborCeiling) - floor >= walkableHeight
                    THEN [acc EXCEPT !.lowest = -walkableClimb - 1]
                    ELSE LedgeDirectionsInsideOnly(
                             heightfield, x, z, floor, ceiling, walkableHeight,
                             walkableClimb, direction + 1,
                             LedgeColumnScan(chain, 1, floor, ceiling, walkableHeight,
                                             walkableClimb, acc))

\* The direction loop of rcFilterLedgeSpans for one span, from `direction`.
RECURSIVE LedgeDirections(_, _, _, _, _, _, _, _, _)
LedgeDirections(heightfield, x, z, floor, ceiling, walkableHeight, walkableClimb, direction, acc) ==
    IF direction >= 4 THEN acc
    ELSE LET neighborX == x + rcGetDirOffsetX(direction)
             neighborZ == z + rcGetDirOffsetY(direction)
         IN IF \/ neighborX < 0 \/ neighborZ < 0
               \/ neighborX >= heightfield.width \/ neighborZ >= heightfield.height
            THEN [acc EXCEPT !.lowest = -walkableClimb - 1]
            ELSE LET chain == heightfield.spans[neighborX + neighborZ * heightfield.width]
                     neighborCeiling == IF chain # <<>> THEN chain[1].smin
                                        ELSE MAX_HEIGHTFIELD_HEIGHT
                 IN IF rcMin(ceiling, neighborCeiling) - floor >= walkableHeight
                    THEN [acc EXCEPT !.lowest = -walkableClimb - 1]
                    ELSE LedgeDirections(
                             heightfield, x, z, floor, ceiling, walkableHeight,
                             walkableClimb, direction + 1,
                             LedgeColumnScan(chain, 1, floor, ceiling, walkableHeight,
                                             walkableClimb, acc))

\* The area rcFilterLedgeSpans leaves in span k of column col.
LedgeArea(heightfield, col, k, walkableHeight, walkableClimb) ==
    LET chain == heightfield.spans[col]
        floor == chain[k].smax
        ceiling == IF k < Len(chain) THEN chain[k + 1].smin ELSE MAX_HEIGHTFIELD_HEIGHT
        scan == LedgeDirections(heightfield, col % heightfield.width,
                                col \div heightfield.width, floor, ceiling,
                                walkableHeight, walkableClimb, 0,
                                [lowest |-> MAX_HEIGHTFIELD_HEIGHT,
                                 lowestFloor |-> floor, highestFloor |-> floor])
    IN IF chain[k].area = RC_NULL_AREA THEN RC_NULL_AREA
       ELSE IF scan.lowest < -walkableClimb THEN RC_NULL_AREA
       ELSE IF scan.highestFloor - scan.lowestFloor > walkableClimb THEN RC_NULL_AREA
       ELSE chain[k].area

rcFilterLedgeSpans(walkableHeight, walkableClimb, heightfield) ==
    [heightfield EXCEPT
        !.spans = [col \in DOMAIN heightfield.spans |->
                     [k \in 1..Len(heightfield.spans[col]) |->
                        [heightfield.spans[col][k] EXCEPT
                            !.area = LedgeArea(heightfield, col, k, walkableHeight,
                                               walkableClimb)]] \o <<>>]]

\* The mutant nulls a span whose clearance equals walkableHeight as well.
rcFilterWalkableLowHeightSpansStrict(walkableHeight, heightfield) ==
    [heightfield EXCEPT
        !.spans = [col \in DOMAIN heightfield.spans |->
                     LET chain == heightfield.spans[col]
                     IN [k \in 1..Len(chain) |->
                           LET ceiling == IF k < Len(chain) THEN chain[k + 1].smin
                                          ELSE MAX_HEIGHTFIELD_HEIGHT
                           IN IF ceiling - chain[k].smax <= walkableHeight
                              THEN [chain[k] EXCEPT !.area = RC_NULL_AREA]
                              ELSE chain[k]] \o <<>>]]

rcFilterWalkableLowHeightSpans(walkableHeight, heightfield) ==
    [heightfield EXCEPT
        !.spans = [col \in DOMAIN heightfield.spans |->
                     LET chain == heightfield.spans[col]
                     IN [k \in 1..Len(chain) |->
                           LET ceiling == IF k < Len(chain) THEN chain[k + 1].smin
                                          ELSE MAX_HEIGHTFIELD_HEIGHT
                           IN IF ceiling - chain[k].smax < walkableHeight
                              THEN [chain[k] EXCEPT !.area = RC_NULL_AREA]
                              ELSE chain[k]] \o <<>>]]

---------------------------------------------------------------------------
(* Specification SpecFilter: the three span filters in the order of the    *)
(* build, then compaction, on 4 x 3 heightfields.                           *)

\* Span heights of the varied column range over 0..MaxFilterHeight, those of
\* its neighbours over 0..(MaxFilterHeight - 2).
MaxFilterHeight == 5
\* The varied column holds at most MaxFilterSpans spans.
MaxFilterSpans == 3
\* walkableClimb is 0 or MaxFilterClimb.
MaxFilterClimb == 2

\* 4 x 3 heightfields: column (1, 1) holds the chain centre, its west, north
\* and south neighbours the chain a, its east neighbour (2, 1) the chain b,
\* every other column ground.
FilterGrid(centre, a, b) ==
    [width |-> 4, height |-> 3,
     spans |-> [col \in 0..11 |->
                  CASE col = 1 + 1 * 4 -> centre
                    [] col \in {1, 4, 9} -> a
                    [] col = 2 + 1 * 4 -> b
                    [] OTHER -> FlatChain(RC_WALKABLE_AREA)]]

InitFilter ==
    /\ \E centre \in ChainsFrom(0, MaxFilterHeight, MaxFilterSpans, SpanAreas),
          a, b \in ChainsFrom(0, MaxFilterHeight - 2, 1, {RC_WALKABLE_AREA}) :
          hf = FilterGrid(centre, a, b)
    /\ \E wh \in {3, MAX_HEIGHTFIELD_HEIGHT}, wc \in {0, MaxFilterClimb} :
          cfg = [DefaultCfg EXCEPT !.walkableHeight = wh, !.walkableClimb = wc]
    /\ chf = NoChf
    /\ pc = "filterLowHanging"
    /\ ret = "none"
    /\ log = {}
    /\ added = EmptyBag
    /\ preReg = <<>>
    /\ regTable = <<>>
    /\ floodId = 0
    /\ levels = <<>>
    /\ locals = <<>>
    /\ ub = {}
    /\ stages = <<>>

\* rcFilterLowHangingWalkableObstacles(ctx, walkableClimb, solid).
FilterLowHangingWalkableObstacles ==
    /\ pc = "filterLowHanging"
    /\ hf' = rcFilterLowHangingWalkableObstacles(cfg.walkableClimb, hf)
    /\ stages' = Append(stages, "lowHanging")
    /\ pc' = "filterLedge"
    /\ UNCHANGED <<cfg, locals, levels, chf, ret, log, added, preReg, regTable, floodId, ub>>

\* rcFilterLedgeSpans(ctx, walkableHeight, walkableClimb, solid).
FilterLedgeSpans ==
    /\ pc = "filterLedge"
    /\ hf' = rcFilterLedgeSpans(cfg.walkableHeight, cfg.walkableClimb, hf)
    /\ stages' = Append(stages, "ledge")
    /\ pc' = "filterLowHeight"
    /\ UNCHANGED <<cfg, locals, levels, chf, ret, log, added, preReg, regTable, floodId, ub>>

\* rcFilterWalkableLowHeightSpans(ctx, walkableHeight, solid).
FilterWalkableLowHeightSpans ==
    /\ pc = "filterLowHeight"
    /\ hf' = rcFilterWalkableLowHeightSpans(cfg.walkableHeight, hf)
    /\ stages' = Append(stages, "lowHeight")
    /\ pc' = "compact"
    /\ UNCHANGED <<cfg, locals, levels, chf, ret, log, added, preReg, regTable, floodId, ub>>

NextFilter ==
    \/ FilterLowHangingWalkableObstacles
    \/ FilterLedgeSpans
    \/ FilterWalkableLowHeightSpans
    \/ BuildCompactHeightfield

SpecFilter == InitFilter /\ [][NextFilter]_vars

---------------------------------------------------------------------------
(* Area erosion: rcErodeWalkableArea (RecastArea.cpp).                     *)

\* The first pass: a span of null area, or with fewer than four connected
\* neighbours of non-null area, is at distance 0; the others start at 0xff.
BoundarySeeds(c, nb) ==
    [k \in 1..c.spanCount |->
        IF c.areas[k - 1] = RC_NULL_AREA THEN 0
        ELSE IF \A dir \in 0..3 : /\ nb[k][dir + 1] # -1
                                  /\ c.areas[nb[k][dir + 1]] # RC_NULL_AREA
             THEN 255 ELSE 0] \o <<>>

\* One relaxation of span i, 8 bits wide: over the neighbour in direction dir
\* (cost 2) and over that neighbour's neighbour in direction diag (cost 3).
ErodeRelax(nb, dist, i, v, dir, diag) ==
    IF nb[i + 1][dir + 1] = -1 THEN v
    ELSE LET ai == nb[i + 1][dir + 1]
             v1 == rcMin(v, rcMin(dist[ai + 1] + 2, 255))
             bi == nb[ai + 1][diag + 1]
         IN IF bi = -1 THEN v1 ELSE rcMin(v1, rcMin(dist[bi + 1] + 3, 255))

\* One sweep over the spans in the given order with two direction pairs.
\* The sweep runs over order[k..last].
RECURSIVE ErodePass(_, _, _, _, _, _, _, _, _)
ErodePass(nb, dist, order, k, last, d1, g1, d2, g2) ==
    IF k > last THEN dist
    ELSE IF last > k
    THEN Only([half \in {ErodePass(nb, dist, order, k, (k + last) \div 2,
                                   d1, g1, d2, g2)} |->
            After(half, ErodePass(nb, half, order, (k + last) \div 2 + 1, last, d1, g1, d2, g2))])
    ELSE LET i == order[k]
             v == ErodeRelax(nb, dist, i, ErodeRelax(nb, dist, i, dist[i + 1], d1, g1),
                             d2, g2)
         IN [dist EXCEPT ![i + 1] = v]

\* distanceToBoundary[] after the seeding and the two sweeps.
distanceToBoundary(c, nb) ==
    Only([seeds \in {BoundarySeeds(c, nb)} |->
    Only([forward \in {ErodePass(nb, seeds, [k \in 1..c.spanCount |-> k - 1],
                                 1, c.spanCount, 0, 3, 3, 2)} |->
       ErodePass(nb, forward, BackwardOrder(c, c.width * c.height - 1, 0),
                 1, c.spanCount, 2, 1, 1, 0)])])

\* minBoundaryDistance = (unsigned char)(erosionRadius * 2).
minBoundaryDistance(erosionRadius) == (erosionRadius * 2) % 256

\* The erosion with the spans at exactly minBoundaryDistance nulled as well.
rcErodeWalkableAreaInclusive(erosionRadius, c) ==
    Only([dist \in {distanceToBoundary(c, LinkTable(c, 0))} |->
       [c EXCEPT !.areas = [i \in 0..(c.spanCount - 1) |->
                               IF dist[i + 1] <= minBoundaryDistance(erosionRadius)
                               THEN RC_NULL_AREA ELSE c.areas[i]]]])

rcErodeWalkableArea(erosionRadius, c) ==
    Only([dist \in {distanceToBoundary(c, LinkTable(c, 0))} |->
       [c EXCEPT !.areas = [i \in 0..(c.spanCount - 1) |->
                               IF dist[i + 1] < minBoundaryDistance(erosionRadius)
                               THEN RC_NULL_AREA ELSE c.areas[i]]]])

---------------------------------------------------------------------------
(* Specification SpecErode: compaction, then rcErodeWalkableArea, on        *)
(* terrains of flat ground with slabs above it and raised steps.            *)

\* The erosion radius ranges over 1..MaxErosionRadius and the two radii 128
\* and 254 of the documented range 0 < value < 255.
MaxErosionRadius == 3
\* rcErodeWalkableArea runs at most MaxErosions times on one heightfield.
MaxErosions == 2

\* Ground [0, 1), a step [0, 2), and ground below a slab with its bottom at
\* `under` (a span one cell thick).
Ground == FlatChain(RC_WALKABLE_AREA)
Step == <<[smin |-> 0, smax |-> 2, area |-> RC_WALKABLE_AREA]>>
Slab(under) ==
    Ground \o <<[smin |-> under, smax |-> under + 1, area |-> RC_WALKABLE_AREA]>>

\* The features a terrain can carry, as <<x, z, chain>> around the centre
\* (m, m): every other column is ground.
Features(m) ==
    {<<m - 1, m - 1, Slab(4)>>, <<m - 2, m, Slab(5)>>, <<m - 1, m, Slab(4)>>,
     <<m, m, Slab(5)>>, <<m - 2, m + 1, Step>>, <<m - 1, m + 1, Slab(4)>>,
     <<m, m + 1, Step>>, <<m - 1, m + 2, Step>>}

\* The n x n terrain carrying the features fs.
Terrain(n, fs) ==
    [width |-> n, height |-> n,
     spans |-> [col \in 0..(n * n - 1) |->
                  IF \E f \in fs : f[1] = col % n /\ f[2] = col \div n
                  THEN (CHOOSE f \in fs : f[1] = col % n /\ f[2] = col \div n)[3]
                  ELSE Ground]]

InitErode ==
    /\ \E fs \in SUBSET Features(MaxGridSize \div 2) : hf = Terrain(MaxGridSize, fs)
    /\ \E radius \in (1..MaxErosionRadius) \cup {128, 254} :
          cfg = [DefaultCfg EXCEPT !.walkableClimb = 3, !.walkableRadius = radius]
    /\ chf = NoChf
    /\ pc = "compact"
    /\ ret = "none"
    /\ log = {}
    /\ added = EmptyBag
    /\ preReg = <<>>
    /\ regTable = <<>>
    /\ floodId = 0
    /\ levels = <<>>
    /\ locals = <<>>
    /\ ub = {}
    /\ stages = <<>>

\* rcErodeWalkableArea(ctx, walkableRadius, chf).
ErodeWalkableArea(oom) ==
    /\ pc \in {"compacted", "eroded"}
    /\ Len(stages) < MaxErosions
    /\ IF oom
       THEN /\ ret' = FALSE
            /\ pc' = "failed"
            /\ log' = log \cup {"erodeWalkableArea: Out of memory 'dist'."}
            /\ UNCHANGED <<chf, stages>>
       ELSE /\ chf' = rcErodeWalkableArea(cfg.walkableRadius, chf)
            /\ ret' = TRUE
            /\ pc' = "eroded"
            /\ stages' = Append(stages, "erosion")
            /\ UNCHANGED log
    /\ UNCHANGED <<hf, cfg, locals, levels, added, preReg, regTable, floodId, ub>>

NextErode ==
    \/ BuildCompactHeightfield
    \/ \E oom \in BOOLEAN : ErodeWalkableArea(oom)

SpecErode == InitErode /\ [][NextErode]_vars

---------------------------------------------------------------------------
(* Area marking: rcMarkBoxArea, rcMarkCylinderArea, rcMarkConvexPolyArea    *)
(* and rcMedianFilterWalkableArea (RecastArea.cpp), each with its call.     *)
(* The model takes the cell size and the cell height as 1 and bmin as the   *)
(* origin, and whole numbers for the volumes, so that the (int) casts of    *)
(* the code are exact; cell centres are compared in doubled coordinates.    *)

\* The mutant marks the spans of null area too.
MarkBoxAreaAnySpan(boxMinBounds, boxMaxBounds, areaId) ==
    /\ pc \in {"compacted", "eroded"}
    /\ Len(SelectSeq(stages, LAMBDA name : name \notin {"erosion", "median"})) < cfg.volumeCount
    /\ chf' = [chf EXCEPT !.areas =
                 [i \in DOMAIN chf.areas |->
                     LET x == ColumnOf(chf.cells, i) % chf.width
                         z == ColumnOf(chf.cells, i) \div chf.width
                     IN IF /\ x >= boxMinBounds[1] /\ x <= boxMaxBounds[1]
                           /\ z >= boxMinBounds[3] /\ z <= boxMaxBounds[3]
                           /\ chf.spans[i].y >= boxMinBounds[2]
                           /\ chf.spans[i].y <= boxMaxBounds[2]
                        THEN areaId ELSE chf.areas[i]]]
    /\ stages' = Append(stages, "markBox")
    /\ UNCHANGED <<hf, cfg, locals, levels, pc, ret, log, added, preReg, regTable, floodId, ub>>

\* rcMarkBoxArea(ctx, boxMinBounds, boxMaxBounds, areaId, chf), called while
\* the input geometry has a volume left to mark.
MarkBoxArea(boxMinBounds, boxMaxBounds, areaId) ==
    /\ pc \in {"compacted", "eroded"}
    /\ Len(SelectSeq(stages, LAMBDA name : name \notin {"erosion", "median"})) < cfg.volumeCount
    /\ LET xSize == chf.width
           zSize == chf.height
           minY == boxMinBounds[2]
           maxY == boxMaxBounds[2]
       IN IF \/ boxMaxBounds[1] < 0 \/ boxMinBounds[1] >= xSize
             \/ boxMaxBounds[3] < 0 \/ boxMinBounds[3] >= zSize
          THEN UNCHANGED chf
          ELSE LET minX == rcMax(boxMinBounds[1], 0)
                   maxX == rcMin(boxMaxBounds[1], xSize - 1)
                   minZ == rcMax(boxMinBounds[3], 0)
                   maxZ == rcMin(boxMaxBounds[3], zSize - 1)
               IN chf' = [chf EXCEPT !.areas =
                     [i \in DOMAIN chf.areas |->
                         LET x == ColumnOf(chf.cells, i) % xSize
                             z == ColumnOf(chf.cells, i) \div xSize
                         IN IF /\ x >= minX /\ x <= maxX /\ z >= minZ /\ z <= maxZ
                               /\ ~(chf.spans[i].y < minY \/ chf.spans[i].y > maxY)
                               /\ chf.areas[i] # RC_NULL_AREA
                            THEN areaId ELSE chf.areas[i]]]
    /\ stages' = Append(stages, "markBox")
    /\ UNCHANGED <<hf, cfg, locals, levels, pc, ret, log, added, preReg, regTable, floodId, ub>>

\* rcMarkCylinderArea(ctx, position, radius, height, areaId, chf): a column
\* is skipped when its centre lies at the radius or farther from the axis.
MarkCylinderArea(position, radius, height, areaId) ==
    /\ pc \in {"compacted", "eroded"}
    /\ Len(SelectSeq(stages, LAMBDA name : name \notin {"erosion", "median"})) < cfg.volumeCount
    /\ LET xSize == chf.width
           zSize == chf.height
           miny == position[2]
           maxy == position[2] + height
       IN IF \/ position[1] + radius < 0 \/ position[1] - radius >= xSize
             \/ position[3] + radius < 0 \/ position[3] - radius >= zSize
          THEN UNCHANGED chf
          ELSE LET minx == rcMax(position[1] - radius, 0)
                   maxx == rcMin(position[1] + radius, xSize - 1)
                   minz == rcMax(position[3] - radius, 0)
                   maxz == rcMin(position[3] + radius, zSize - 1)
               IN chf' = [chf EXCEPT !.areas =
                     [i \in DOMAIN chf.areas |->
                         LET x == ColumnOf(chf.cells, i) % xSize
                             z == ColumnOf(chf.cells, i) \div xSize
                             deltaX2 == 2 * x + 1 - 2 * position[1]
                             deltaZ2 == 2 * z + 1 - 2 * position[3]
                         IN IF /\ x >= minx /\ x <= maxx /\ z >= minz /\ z <= maxz
                               /\ ~(deltaX2 * deltaX2 + deltaZ2 * deltaZ2
                                        >= 4 * radius * radius)
                               /\ chf.areas[i] # RC_NULL_AREA
                               /\ chf.spans[i].y >= miny /\ chf.spans[i].y <= maxy
                            THEN areaId ELSE chf.areas[i]]]
    /\ stages' = Append(stages, "markCylinder")
    /\ UNCHANGED <<hf, cfg, locals, levels, pc, ret, log, added, preReg, regTable, floodId, ub>>

\* rcMarkConvexPolyArea(ctx, verts, numVerts, minY, maxY, areaId, chf), with
\* verts[k] = <<x, z>>.  pointInPoly holds for the centre of column (x, z)
\* when the number of edges that toggle inPoly is odd; the division of the
\* code is multiplied out.
MarkConvexPolyArea(verts, minY, maxY, areaId) ==
    /\ pc \in {"compacted", "eroded"}
    /\ Len(SelectSeq(stages, LAMBDA name : name \notin {"erosion", "median"})) < cfg.volumeCount
    /\ LET xSize == chf.width
           zSize == chf.height
           bminX == SetMin({verts[k][1] : k \in 1..Len(verts)})
           bmaxX == SetMax({verts[k][1] : k \in 1..Len(verts)})
           bminZ == SetMin({verts[k][2] : k \in 1..Len(verts)})
           bmaxZ == SetMax({verts[k][2] : k \in 1..Len(verts)})
           toggles(x, z, i) ==
               LET vi == verts[i]
                   vj == verts[IF i = 1 THEN Len(verts) ELSE i - 1]
                   d == 2 * vj[2] - 2 * vi[2]
                   lhs == (2 * x + 1 - 2 * vi[1]) * d
                   rhs == (2 * vj[1] - 2 * vi[1]) * (2 * z + 1 - 2 * vi[2])
               IN /\ (2 * vi[2] > 2 * z + 1) # (2 * vj[2] > 2 * z + 1)
                  /\ ~(IF d > 0 THEN lhs >= rhs ELSE lhs <= rhs)
           pointInPoly(x, z) ==
               Cardinality({i \in 1..Len(verts) : toggles(x, z, i)}) % 2 = 1
       IN IF bmaxX < 0 \/ bminX >= xSize \/ bmaxZ < 0 \/ bminZ >= zSize
          THEN UNCHANGED chf
          ELSE LET minx == rcMax(bminX, 0)
                   maxx == rcMin(bmaxX, xSize - 1)
                   minz == rcMax(bminZ, 0)
                   maxz == rcMin(bmaxZ, zSize - 1)
               IN chf' = [chf EXCEPT !.areas =
                     [i \in DOMAIN chf.areas |->
                         LET x == ColumnOf(chf.cells, i) % xSize
                             z == ColumnOf(chf.cells, i) \div xSize
                         IN IF /\ x >= minx /\ x <= maxx /\ z >= minz /\ z <= maxz
                               /\ chf.areas[i] # RC_NULL_AREA
                               /\ ~(chf.spans[i].y < minY \/ chf.spans[i].y > maxY)
                               /\ pointInPoly(x, z)
                            THEN areaId ELSE chf.areas[i]]]
    /\ stages' = Append(stages, "markConvexPoly")
    /\ UNCHANGED <<hf, cfg, locals, levels, pc, ret, log, added, preReg, regTable, floodId, ub>>

\* rcMedianFilterWalkableArea(ctx, chf): every span of non-null area takes
\* the median of its own area (nine times, one per slot) overwritten by the
\* non-null areas of its neighbours, all read before any is written.
MedianFilterWalkableArea(oom) ==
    /\ pc \in {"compacted", "eroded"}
    /\ ~SeqContains(stages, "median")
    /\ IF oom
       THEN /\ ret' = FALSE
            /\ pc' = "failed"
            /\ log' = log \cup {"medianFilterWalkableArea: Out of memory 'areas'."}
            /\ UNCHANGED <<chf, stages>>
       ELSE /\ LET nb == LinkTable(chf, 0)
                   neighborAreas(i) ==
                       [slot \in 1..9 |->
                           LET dir == (slot - 1) \div 2
                               ai == IF slot = 9 THEN -1 ELSE nb[i + 1][dir + 1]
                               bi == IF ai = -1 THEN -1
                                     ELSE nb[ai + 1][((dir + 1) % 4) + 1]
                               ni == IF slot % 2 = 1 THEN ai ELSE bi
                           IN IF ni # -1 /\ chf.areas[ni] # RC_NULL_AREA
                              THEN chf.areas[ni] ELSE chf.areas[i]]
               IN chf' = [chf EXCEPT !.areas =
                     [i \in DOMAIN chf.areas |->
                         IF chf.areas[i] = RC_NULL_AREA THEN chf.areas[i]
                         ELSE SortSeq(neighborAreas(i), LAMBDA a, b : a < b)[5]]]
            /\ ret' = TRUE
            /\ stages' = Append(stages, "median")
            /\ UNCHANGED <<pc, log>>
    /\ UNCHANGED <<hf, cfg, locals, levels, added, preReg, regTable, floodId, ub>>

---------------------------------------------------------------------------
(* Specification SpecAreas: compaction, erosion, area marking and           *)
(* partitioning, the steps of the build that follow the span filters.       *)

\* The input geometry holds at most MaxVolumes convex volumes.
MaxVolumes == 1

InitAreas ==
    /\ \/ \E fs \in {{}, {<<1, 1, Slab(4)>>}} : hf = Terrain(SmallGridSize + 1, fs)
       \/ hf = Terrain(SmallGridSize + 2, {<<1, 0, <<>>>>})
    /\ \E radius \in 0..1, volumeCount \in 0..MaxVolumes, pt \in PartitionTypes :
          cfg = [DefaultCfg EXCEPT !.walkableRadius = radius, !.minRegionArea = 1,
                                   !.mergeRegionArea = 1, !.partitionType = pt,
                                   !.volumeCount = volumeCount]
    /\ chf = NoChf
    /\ pc = "compact"
    /\ ret = "none"
    /\ log = {}
    /\ added = EmptyBag
    /\ preReg = <<>>
    /\ regTable = <<>>
    /\ floodId = 0
    /\ levels = <<>>
    /\ locals = <<>>
    /\ ub = {}
    /\ stages = <<>>

\* The volumes marked all hold the centre of column (0, 0).
SpecAreas ==
    InitAreas /\ [][\/ BuildCompactHeightfield
                    \/ \E oom \in BOOLEAN : ErodeWalkableArea(oom)
                    \/ \E box \in {<<<<0, 0, 0>>, <<1, 1, 2>>>>, <<<<-1, 0, -1>>, <<2, 5, 9>>>>},
                          areaId \in {RC_NULL_AREA, 1} :
                          MarkBoxArea(box[1], box[2], areaId)
                    \/ \E radius \in 1..2, areaId \in {RC_NULL_AREA, 1} :
                          MarkCylinderArea(<<1, 0, 1>>, radius, 1, areaId)
                    \/ \E verts \in {<<<<0, 0>>, <<0, 4>>, <<4, 0>>>>,
                                      <<<<0, 0>>, <<0, 2>>, <<3, 2>>, <<3, 0>>>>},
                          areaId \in {RC_NULL_AREA, 1} :
                          MarkConvexPolyArea(verts, 0, 1, areaId)
                    \/ \E oom \in BOOLEAN : MedianFilterWalkableArea(oom)
                    \/ \E oom \in BOOLEAN : BuildDistanceField(oom)
                    \/ \E oom \in BOOLEAN : BuildRegions(oom)
                    \/ \E oom \in BOOLEAN, outcome \in {"continues", "faults"} :
                          BuildRegionsMonotone(oom, outcome)
                    \/ \E oom \in BOOLEAN, outcome \in {"continues", "faults"} :
                          BuildLayerRegions(oom, outcome)]_vars

---------------------------------------------------------------------------
(* Specification SpecField: compaction, erosion and the three partitioners *)
(* on flat fields of one walkable span per column, up to FieldSize x       *)
(* FieldSize columns.                                                      *)

FieldSize == 10

InitField ==
    /\ \E n \in 1..FieldSize : hf = Terrain(n, {})
    /\ \E pt \in PartitionTypes :
          cfg = [DefaultCfg EXCEPT !.walkableRadius = 1, !.minRegionArea = 1,
                                   !.mergeRegionArea = 1, !.partitionType = pt]
    /\ chf = NoChf
    /\ pc = "compact"
    /\ ret = "none"
    /\ log = {}
    /\ added = EmptyBag
    /\ preReg = <<>>
    /\ regTable = <<>>
    /\ floodId = 0
    /\ levels = <<>>
    /\ locals = <<>>
    /\ ub = {}
    /\ stages = <<>>

SpecField ==
    InitField /\ [][\/ BuildCompactHeightfield
                    \/ \E oom \in BOOLEAN : ErodeWalkableArea(oom)
                    \/ \E oom \in BOOLEAN : BuildDistanceField(oom)
                    \/ \E oom \in BOOLEAN : BuildRegions(oom)
                    \/ \E oom \in BOOLEAN, outcome \in {"continues", "faults"} :
                          BuildRegionsMonotone(oom, outcome)
                    \/ \E oom \in BOOLEAN, outcome \in {"continues", "faults"} :
                          BuildLayerRegions(oom, outcome)]_vars

---------------------------------------------------------------------------
(* Specification Spec: the pipeline driver Sample_SoloMesh::handleBuild.   *)

\* m_solid before handleBuild has allocated it.
NoHf == [width |-> -1]

\* The grid of the build is at most MaxBuildWidth x 1 cells.
MaxBuildWidth == 2

Init ==
    /\ hf = NoHf
    /\ \E wc \in 0..MaxThreshold :
          cfg = [DefaultCfg EXCEPT !.walkableClimb = wc, !.flagMergeThreshold = wc]
    /\ chf = NoChf
    /\ pc = "idle"
    /\ ret = "none"
    /\ log = {}
    /\ added = EmptyBag
    /\ preReg = <<>>
    /\ regTable = <<>>
    /\ floodId = 0
    /\ levels = <<>>
    /\ locals = <<>>
    /\ ub = {}
    /\ stages = <<>>

\* handleBuild returns false after logging message.
BuildFails(message) ==
    /\ log' = log \cup {message}
    /\ ret' = FALSE
    /\ pc' = "returned"

\* handleBuild up to the rasterization: the check of the input geometry, the
\* configuration and the creation of the solid heightfield.  failure names
\* the allocation that fails, if any.
HandleBuildBegin(hasGeometry, width, height, failure) ==
    /\ pc = "idle"
    /\ IF ~hasGeometry
       THEN /\ BuildFails("buildNavigation: Input mesh is not specified.")
            /\ UNCHANGED hf
       ELSE IF failure = "solid"
       THEN /\ BuildFails("buildNavigation: Out of memory 'solid'.")
            /\ UNCHANGED hf
       ELSE IF failure = "create"
       THEN /\ BuildFails("buildNavigation: Could not create solid heightfield.")
            /\ UNCHANGED hf
       ELSE /\ hf' = rcCreateHeightfield(width, height)
            /\ IF failure = "triareas"
               THEN BuildFails("buildNavigation: Out of memory 'm_triareas'.")
               ELSE pc' = "rasterizing" /\ UNCHANGED <<ret, log>>
    /\ UNCHANGED <<cfg, locals, levels, chf, added, preReg, regTable, floodId, ub, stages>>

\* One span of rcRasterizeTriangles: rasterizeTri hands the span of a cell
\* to addSpan with walkableClimb as the merge threshold; a failed allocation
\* makes rcRasterizeTriangles, and then handleBuild, return false.
HandleBuildRasterize(x, z, spanMin, spanMax, areaID, oom) ==
    /\ pc = "rasterizing"
    /\ BagCardinality(added) < MaxAdds
    /\ IF oom
       THEN /\ log' = log \cup {"rcRasterizeTriangles: Out of memory.",
                                "buildNavigation: Could not rasterize triangles."}
            /\ ret' = FALSE
            /\ pc' = "returned"
            /\ UNCHANGED <<hf, added>>
       ELSE /\ hf' = [hf EXCEPT !.spans[x + z * hf.width] =
                         addSpan(@, spanMin, spanMax, areaID, cfg.walkableClimb)]
            /\ added' = added (+) SetToBag({[smin |-> spanMin, smax |-> spanMax,
                                             area |-> areaID]})
            /\ UNCHANGED <<ret, log, pc>>
    /\ UNCHANGED <<cfg, locals, levels, chf, preReg, regTable, floodId, ub, stages>>

\* The end of the rasterization: handleBuild returns true there, before the
\* filtering, the compaction, the erosion and the partitioning that follow
\* in the source.
HandleBuildReturn ==
    /\ pc = "rasterizing"
    /\ stages' = Append(stages, "rasterization")
    /\ ret' = TRUE
    /\ pc' = "returned"
    /\ UNCHANGED <<hf, cfg, locals, levels, chf, log, added, preReg, regTable, floodId, ub>>

Next ==
    \/ \E hasGeometry \in BOOLEAN, width \in 1..MaxBuildWidth,
          failure \in {"none", "solid", "create", "triareas"} :
          HandleBuildBegin(hasGeometry, width, 1, failure)
    \/ \E x \in 0..(MaxBuildWidth - 1), lo \in SpanHeights, hi \in SpanHeights,
          a \in SpanAreas, oom \in BOOLEAN :
          /\ pc = "rasterizing"
          /\ x < hf.width
          /\ lo < hi
          /\ HandleBuildRasterize(x, 0, lo, hi, a, oom)
    \/ HandleBuildReturn

Spec == Init /\ [][Next]_vars

---------------------------------------------------------------------------
(* Claims about addSpan, checked under SpecSpan.                           *)

\* The code's notion of two spans overlapping: neither lies entirely above
\* the other (the else branch of the walk), so touching spans overlap.
ChainWellFormed(chain) ==
    /\ \A i \in 1..Len(chain) :
          chain[i].smin < chain[i].smax /\ chain[i].smax <= RC_SPAN_MAX_HEIGHT
    /\ \A i \in 1..Len(chain), j \in 1..Len(chain) :
          i < j => /\ chain[i].smin < chain[j].smin
                   /\ chain[i].smax < chain[j].smin

\* C1: after any sequence of rcAddSpan calls with 0 <= smin < smax <= 8191 on
\* an empty heightfield, every column chain is strictly ascending by smin,
\* its spans do not overlap pairwise, and every span has smin < smax <= 8191.
C1_ChainsOrderedDisjoint ==
    \A c \in DOMAIN hf.spans : ChainWellFormed(hf.spans[c])

\* C1 witness: three spans were inserted, one insertion merged with a span
\* already in the column, and two spans remain, the upper one reaching 8191.
C1_Witness ==
    /\ BagCardinality(added) = 3
    /\ Len(hf.spans[0]) = 2
    /\ hf.spans[0][2].smax = RC_SPAN_MAX_HEIGHT

SpanKey(s) == (s.smin * (RC_SPAN_MAX_HEIGHT + 1) + s.smax) * 64 + s.area

\* The spans of a bag in ascending order of (smin, smax, area).
RECURSIVE SortedSpans(_)
SortedSpans(b) ==
    IF b = EmptyBag THEN <<>>
    ELSE LET m == CHOOSE s \in BagToSet(b) :
                      \A t \in BagToSet(b) : SpanKey(s) <= SpanKey(t)
         IN <<m>> \o SortedSpans(b (-) SetToBag({m}))

\* The column obtained by inserting the spans of `seq` in order, from empty.
RECURSIVE InsertAll(_, _, _)
InsertAll(chain, seq, thr) ==
    IF seq = <<>> THEN chain
    ELSE InsertAll(addSpan(chain, Head(seq).smin, Head(seq).smax, Head(seq).area, thr),
                   Tail(seq), thr)

SortedInsertion == InsertAll(<<>>, SortedSpans(added), cfg.flagMergeThreshold)

Geometry(chain) == [i \in 1..Len(chain) |-> <<chain[i].smin, chain[i].smax>>]

\* C2 (as stated): for a fixed flagMergeThreshold, inserting the same multiset
\* of spans in any order yields the same chain, areas included: the column
\* equals the one obtained by inserting the multiset in sorted order.
C2_AnyOrderSameChain ==
    hf.spans[0] = SortedInsertion

\* C2 (amended): inserting the same multiset of spans in any order yields the
\* same sequence of (smin, smax) intervals; the areas may depend on the order.
C2_AnyOrderSameGeometry ==
    Geometry(hf.spans[0]) = Geometry(SortedInsertion)

\* C2 witness: two insertion orders of one multiset merged into the same
\* interval with different areas.
C2_Witness ==
    /\ BagCardinality(added) >= 2
    /\ Len(hf.spans[0]) = 1
    /\ Len(SortedInsertion) = 1
    /\ hf.spans[0][1].area # SortedInsertion[1].area

---------------------------------------------------------------------------
(* Claims about rcBuildCompactHeightfield, checked under SpecCompact.      *)

\* C3: after rcBuildCompactHeightfield every connection is symmetric - if
\* span A is connected to span B in direction d then B is connected to A in
\* the opposite direction - and the two spans pass the walkable-height and
\* climb test.
C3_ConnectionsSymmetric ==
    pc = "compacted" =>
        \A i \in DOMAIN chf.spans : \A dir \in 0..3 :
            chf.spans[i].con[dir] # RC_NOT_CONNECTED =>
                LET k == NeighborSpan(chf, i, dir)
                    back == (dir + 2) % 4
                IN /\ chf.spans[k].con[back] # RC_NOT_CONNECTED
                   /\ NeighborSpan(chf, k, back) = i
                   /\ CanConnect(chf.spans[i], chf.spans[k],
                                 chf.walkableHeight, chf.walkableClimb)

---------------------------------------------------------------------------
(* Claims about the region partitioners, checked under SpecRegions.        *)

\* A partitioner has returned true.
Partitioned == pc = "regions" /\ ret = TRUE

\* The label written to span i.
Label(i) == chf.spans[i].reg

\* A region label proper: neither 0 nor border-flagged.
Plain(r) == r # 0 /\ ~HasBorderFlag(r)

SameColumn(i, j) == ColumnOf(chf.cells, i) = ColumnOf(chf.cells, j)

\* No two spans of one column carry the same region label.
ColumnsDistinct ==
    \A i, j \in DOMAIN chf.spans :
        (i # j /\ SameColumn(i, j) /\ Plain(Label(i))) => Label(i) # Label(j)

\* C4: after rcBuildRegionsMonotone has returned true, no two spans of the
\* same column carry the same non-zero, non-border region label.
C4_MonotoneColumnsDistinct ==
    (Partitioned /\ cfg.partitionType = "monotone") => ColumnsDistinct

\* The members of the layer that region r belongs to, in the region table
\* after the layers have been built (the layer's ID is stored in id).
LayerMembers(r) ==
    {m \in 0..(Len(regTable) - 1) : regTable[m + 1].id = regTable[r + 1].id}

\* The root of a layer is the member the search started from: the first.
LayerRoot(r) == SetMin(LayerMembers(r))

\* C5: after rcBuildLayerRegions has returned true no layer overlaps itself:
\* no region merged into a layer is contained in the floors accumulated for
\* that layer, and no two spans of one column carry the same non-zero,
\* non-border layer label.
C5_LayersDoNotOverlap ==
    (Partitioned /\ cfg.partitionType = "layers") =>
        /\ \A r \in 1..(Len(regTable) - 1) :
              regTable[r + 1].id # 0 =>
                  ~SeqContains(regTable[LayerRoot(r) + 1].floors, r)
        /\ ColumnsDistinct

\* The labels proper carried by the spans.
PlainLabels == {r \in {Label(i) : i \in DOMAIN chf.spans} : Plain(r)}

\* C6: after rcBuildRegions or rcBuildRegionsMonotone has returned true, for
\* any borderSize, the distinct non-zero labels without the border flag that
\* the spans carry are exactly 1..K.
C6_LabelsContiguous ==
    (Partitioned /\ cfg.partitionType \in {"watershed", "monotone"}) =>
        PlainLabels = 1..Cardinality(PlainLabels)

\* The number of labels below the first region label proper: painting the
\* borders takes the IDs 1..4, and the compaction numbers their (empty)
\* entries of the region table before the regions proper.
BorderIds == IF cfg.borderSize > 0 THEN 4 ELSE 0

\* C6, amended: the labels proper are one contiguous range, 1..K without a
\* border and 5..K+4 with borderSize > 0.
C6_LabelsContiguousAfterBorderIds ==
    (Partitioned /\ cfg.partitionType \in {"watershed", "monotone"}) =>
        PlainLabels = (BorderIds + 1)..(BorderIds + Cardinality(PlainLabels))

C6_Witness ==
    /\ Partitioned
    /\ cfg.partitionType \in {"watershed", "monotone"}
    /\ cfg.borderSize > 0
    /\ Cardinality(PlainLabels) >= 2
    /\ \E i \in DOMAIN chf.spans : HasBorderFlag(Label(i))

\* The pairs <<i, k>> of spans with a connection from i to k.
LinkPairs ==
    {<<i, NeighborSpan(chf, i, dir)>> :
        <<i, dir>> \in {p \in (DOMAIN chf.spans) \X (0..3) :
                           chf.spans[p[1]].con[p[2]] # RC_NOT_CONNECTED}}

\* The pairs of labels of connected spans under the labelling lab (lab[i + 1]
\* is the label of span i), in both directions.
LabelPairs(lab) ==
    {<<lab[p[1] + 1], lab[p[2] + 1]>> : p \in LinkPairs}
        \cup {<<lab[p[2] + 1], lab[p[1] + 1]>> : p \in LinkPairs}

\* The regions reached from the regions in S over adjacent regions proper.
RECURSIVE Reach(_, _)
Reach(S, pairs) ==
    LET more == {p[2] : p \in {q \in pairs : q[1] \in S /\ Plain(q[2])}} \ S
    IN IF more = {} THEN S ELSE Reach(S \cup more, pairs)

\* The connected component of adjacent regions that region a belongs to.
Component(a, lab) == Reach({a}, LabelPairs(lab))

\* Region a has a span connected to a span of a border-flagged region.
AtBorder(a, lab) == \E p \in LabelPairs(lab) : p[1] = a /\ HasBorderFlag(p[2])

\* No region of the component of a is adjacent to a border-flagged region.
AwayFromBorder(a, lab) == \A b \in Component(a, lab) : ~AtBorder(b, lab)

FinalReg == [k \in 1..chf.spanCount |-> Label(k - 1)]

\* C7: after rcBuildRegions or rcBuildRegionsMonotone has returned true,
\* every connected component of adjacent non-border regions that still
\* carries a non-zero label and is not adjacent to a border-flagged region
\* has at least minRegionArea spans in total.
C7_KeptComponentsLargeEnough ==
    (Partitioned /\ cfg.partitionType \in {"watershed", "monotone"}) =>
        \A a \in PlainLabels :
            AwayFromBorder(a, FinalReg) =>
                Cardinality({i \in DOMAIN chf.spans :
                                Label(i) \in Component(a, FinalReg)})
                    >= cfg.minRegionArea

\* Span i carried a region label proper before the postprocessing and
\* carries none after it: its region was removed as too small.
Removed(i) == Plain(preReg[i + 1]) /\ Label(i) = 0

C7_Witness ==
    /\ Partitioned
    /\ cfg.partitionType \in {"watershed", "monotone"}
    /\ cfg.minRegionArea > 1
    /\ \E a \in PlainLabels : AwayFromBorder(a, FinalReg)
    /\ \E i \in DOMAIN chf.spans : Removed(i)

\* C8: the removal of small regions never zeroes a region of a connected
\* component of adjacent regions in which at least one region is adjacent
\* to a border-flagged region, however small the component.
C8_BorderComponentsKept ==
    (Partitioned /\ cfg.partitionType \in {"watershed", "monotone"}) =>
        \A i \in DOMAIN chf.spans :
            Removed(i) => AwayFromBorder(preReg[i + 1], preReg)

\* Span i lies in the outer strip of borderSize columns and rows.
InBorderStrip(i) ==
    LET x == ColumnOf(chf.cells, i) % chf.width
        y == ColumnOf(chf.cells, i) \div chf.width
    IN \/ x < cfg.borderSize \/ x >= chf.width - cfg.borderSize
       \/ y < cfg.borderSize \/ y >= chf.height - cfg.borderSize

\* The labels that painting the borders gives to the spans.
PaintedBorders ==
    PaintBorders(chf, ColumnTable(chf, 0), cfg.borderSize, 1,
                 [k \in 1..chf.spanCount |-> 0]).srcReg

\* C9: with borderSize > 0, after any of the three partitioners has returned
\* true, every span of non-null area in the outer strip of borderSize cells
\* still carries the border-flagged label painted before the partitioning.
C9_BorderLabelsPreserved ==
    (Partitioned /\ cfg.borderSize > 0) =>
        \A i \in DOMAIN chf.spans :
            (InBorderStrip(i) /\ chf.areas[i] # RC_NULL_AREA) =>
                /\ HasBorderFlag(Label(i))
                /\ Label(i) = PaintedBorders[i + 1]

C9_Witness ==
    /\ Partitioned
    /\ cfg.borderSize > 0
    /\ \E i \in DOMAIN chf.spans : InBorderStrip(i) /\ HasBorderFlag(Label(i))
    /\ \E i \in DOMAIN chf.spans : ~InBorderStrip(i) /\ Plain(Label(i))

---------------------------------------------------------------------------
(* Claims about Sample_SoloMesh::handleBuild, checked under Spec.          *)

\* C10: whenever handleBuild returns true, the stages rasterization, span
\* filtering, compaction, erosion and region partitioning have each run to
\* completion in that order, so a compact heightfield with region labels
\* written exists.
C10_BuildRunsEveryStage ==
    (pc = "returned" /\ ret = TRUE) =>
        /\ stages = <<"rasterization", "filtering", "compaction", "erosion",
                      "partitioning">>
        /\ chf # NoChf
        /\ Len(preReg) = chf.spanCount

---------------------------------------------------------------------------
(* Claims about rcErodeWalkableArea, checked under SpecErode.              *)

\* A step in which rcErodeWalkableArea returned true.
ErodeStep == pc' = "eroded" /\ stages' # stages

\* Span i of c has null area or fewer than four connected neighbours of
\* non-null area.
OnBoundary(c, nb, i) ==
    \/ c.areas[i] = RC_NULL_AREA
    \/ \E dir \in 0..3 : \/ nb[i + 1][dir + 1] = -1
                         \/ c.areas[nb[i + 1][dir + 1]] = RC_NULL_AREA

\* The spans reached from the spans S by at most k connection steps.
RECURSIVE WithinSteps(_, _, _)
WithinSteps(nb, S, k) ==
    IF k <= 0 THEN S
    ELSE LET next == S \cup ({nb[j + 1][dir + 1] : j \in S, dir \in 0..3} \ {-1})
         IN IF next = S THEN S ELSE WithinSteps(nb, next, k - 1)

\* No span left with non-null area in `after` reaches a boundary span of c
\* by fewer than radius connection steps.
ErodedClear(c, nb, after, radius) ==
    \A i \in DOMAIN c.spans :
        after.areas[i] # RC_NULL_AREA =>
            \A j \in WithinSteps(nb, {i}, radius - 1) : ~OnBoundary(c, nb, j)

\* C11: after rcErodeWalkableArea(erosionRadius) returns, no span that is
\* still walkable reaches, by a path of fewer than erosionRadius connection
\* steps, a span that before the call had null area or fewer than four
\* walkable connected neighbours.
C11_ErodedAwayFromBoundary ==
    [][ErodeStep => ErodedClear(chf, LinkTable(chf, 0), chf', cfg.walkableRadius)]_vars

\* Every span with a distance below 2 * radius has null area in `after`.
BelowNulled(dist, after, radius) ==
    \A k \in DOMAIN dist : dist[k] < 2 * radius => after.areas[k - 1] = RC_NULL_AREA

\* C12: for every erosionRadius of the documented range, after
\* rcErodeWalkableArea every span whose computed boundary distance is less
\* than the integer 2 * erosionRadius has null area.
C12_BelowTwiceRadiusNulled ==
    [][ErodeStep => BelowNulled(distanceToBoundary(chf, LinkTable(chf, 0)), chf',
                                cfg.walkableRadius)]_vars


---------------------------------------------------------------------------
(* Claims about the span filters and the compaction, checked under         *)
(* SpecFilter and SpecCompact.                                              *)

\* The step in which the filter recorded as `name` runs.
FilterStep(name) == stages' = Append(stages, name)

\* Span k of the chain is a null-area span right above a span with an area,
\* at most walkableClimb higher.
LowHangingCase(chain, k, walkableClimb) ==
    /\ k > 1
    /\ chain[k].area = RC_NULL_AREA
    /\ chain[k - 1].area # RC_NULL_AREA
    /\ chain[k].smax - chain[k - 1].smax <= walkableClimb

RescuedExactly(before, after, walkableClimb) ==
    \A col \in DOMAIN before.spans :
        /\ Len(after.spans[col]) = Len(before.spans[col])
        /\ \A k \in 1..Len(before.spans[col]) :
              IF LowHangingCase(before.spans[col], k, walkableClimb)
              THEN /\ after.spans[col][k].area # before.spans[col][k].area
                   /\ after.spans[col][k] =
                          [before.spans[col][k] EXCEPT
                              !.area = before.spans[col][k - 1].area]
              ELSE after.spans[col][k] = before.spans[col][k]

ReachableFloors(chain, floor, ceiling, walkableHeight) ==
    {chain[j].smax : j \in {j \in 1..Len(chain) :
        rcMin(ceiling, IF j < Len(chain) THEN chain[j + 1].smin
                       ELSE MAX_HEIGHTFIELD_HEIGHT)
            - rcMax(floor, chain[j].smax) >= walkableHeight}}

\* In some direction the neighbouring column of span k of column col is
\* outside the grid, or its lowest reachable floor lies more than
\* walkableClimb below the floor of the span.
LedgeCase(h, col, k, walkableHeight, walkableClimb) ==
    LET chain == h.spans[col]
        floor == chain[k].smax
        ceiling == IF k < Len(chain) THEN chain[k + 1].smin ELSE MAX_HEIGHTFIELD_HEIGHT
    IN \E direction \in 0..3 :
          LET nx == (col % h.width) + rcGetDirOffsetX(direction)
              nz == (col \div h.width) + rcGetDirOffsetY(direction)
          IN IF nx < 0 \/ nz < 0 \/ nx >= h.width \/ nz >= h.height THEN TRUE
             ELSE LET floors == ReachableFloors(h.spans[nx + nz * h.width], floor,
                                                ceiling, walkableHeight)
                  IN floors # {} /\ SetMin(floors) < floor - walkableClimb

LedgesNulled(before, after, walkableHeight, walkableClimb) ==
    \A col \in DOMAIN before.spans : \A k \in 1..Len(before.spans[col]) :
        (/\ before.spans[col][k].area # RC_NULL_AREA
         /\ LedgeCase(before, col, k, walkableHeight, walkableClimb))
            => after.spans[col][k].area = RC_NULL_AREA

\* C14: rcFilterLedgeSpans leaves with null area every span that had an area
\* and that has, in some direction, a neighbouring column outside the grid or
\* a lowest reachable neighbouring floor more than walkableClimb below its own
\* floor; with walkableClimb = 0 this is the upper span of every step.
C14_LedgesNulled ==
    [][FilterStep("ledge") =>
          LedgesNulled(hf, hf', cfg.walkableHeight, cfg.walkableClimb)]_vars

\* C14 witness: with walkableClimb = 0 column (2, 1), walkable from the start
\* and with all neighbours inside the grid, stands one step or more above the
\* ground of its neighbours and has null area after the filter.
C14_Witness ==
    /\ pc = "filterLowHeight"
    /\ cfg.walkableClimb = 0
    /\ cfg.walkableHeight = 3
    /\ Len(hf.spans[2 + hf.width]) = 1
    /\ hf.spans[2 + hf.width][1].smax > hf.spans[3 + hf.width][1].smax
    /\ hf.spans[2 + hf.width][1].area = RC_NULL_AREA

\* The clearance above span k of the chain, with `top` above the last span.
Clearance(chain, k, top) ==
    (IF k < Len(chain) THEN chain[k + 1].smin ELSE top) - chain[k].smax

\* The clearance of span k is at least walkableHeight, the last span of a
\* chain having unbounded clearance.
ClearUnbounded(chain, k, walkableHeight) ==
    k = Len(chain) \/ Clearance(chain, k, 0) >= walkableHeight

\* C15 (as stated): after rcFilterWalkableLowHeightSpans every span with an
\* area has a clearance of at least walkableHeight, the clearance of the
\* topmost span of a column being unbounded, and every span with such a
\* clearance keeps its area.
C15_LowCeilingsNulledUnbounded ==
    [][FilterStep("lowHeight") =>
          \A col \in DOMAIN hf.spans : \A k \in 1..Len(hf.spans[col]) :
              /\ hf'.spans[col][k].area # RC_NULL_AREA
                    => ClearUnbounded(hf.spans[col], k, cfg.walkableHeight)
              /\ ClearUnbounded(hf.spans[col], k, cfg.walkableHeight)
                    => hf'.spans[col][k].area = hf.spans[col][k].area]_vars

\* C15 (amended): the same with the clearance of the topmost span measured up
\* to MAX_HEIGHTFIELD_HEIGHT.
C15_LowCeilingsNulled ==
    [][FilterStep("lowHeight") =>
          \A col \in DOMAIN hf.spans : \A k \in 1..Len(hf.spans[col]) :
              LET high == Clearance(hf.spans[col], k, MAX_HEIGHTFIELD_HEIGHT)
                              >= cfg.walkableHeight
              IN /\ hf'.spans[col][k].area # RC_NULL_AREA => high
                 /\ high => hf'.spans[col][k].area = hf.spans[col][k].area]_vars

\* C15 witness: after the filter column (1, 1) holds a span that kept its
\* area with exactly walkableHeight of clearance below the next span.
C15_Witness ==
    /\ pc = "compact"
    /\ cfg.walkableHeight = 3
    /\ \E k \in 1..(Len(hf.spans[1 + hf.width]) - 1) :
          /\ hf.spans[1 + hf.width][k].area # RC_NULL_AREA
          /\ Clearance(hf.spans[1 + hf.width], k, 0) = 3

\* The spans of column `column` of the compact heightfield that span i can
\* step to: at least walkableHeight of shared clearance and floors at most
\* walkableClimb apart.
Connectable(c, i, column) ==
    {k \in c.cells[column].index..(c.cells[column].index + c.cells[column].count - 1) :
        /\ rcMin(c.spans[i].y + c.spans[i].h, c.spans[k].y + c.spans[k].h)
               - rcMax(c.spans[i].y, c.spans[k].y) >= c.walkableHeight
        /\ rcAbs(c.spans[i].y - c.spans[k].y) <= c.walkableClimb}

\* The neighbouring columns of at most 63 spans inside the grid, by direction.
NeighborColumns(c, i) ==
    LET column == ColumnOf(c.cells, i)
    IN {d \in [dir : 0..3, column : DOMAIN c.cells] :
          LET nx == (column % c.width) + rcGetDirOffsetX(d.dir)
              nz == (column \div c.width) + rcGetDirOffsetY(d.dir)
          IN /\ nx >= 0 /\ nz >= 0 /\ nx < c.width /\ nz < c.height
             /\ d.column = nx + nz * c.width
             /\ c.cells[d.column].count <= 63}

\* C16: after rcBuildCompactHeightfield, for every span A and every direction
\* whose neighbouring column is inside the grid and holds at most 63 spans,
\* con[dir] of A is the layer index of the lowest span of that column with at
\* least walkableHeight of shared clearance and a floor at most walkableClimb
\* from the floor of A, and it is RC_NOT_CONNECTED exactly when the column
\* holds no such span.
C16_ConnectsToLowestMatch ==
    pc = "compacted" =>
        \A i \in DOMAIN chf.spans : \A d \in NeighborColumns(chf, i) :
            LET matches == Connectable(chf, i, d.column)
            IN /\ (chf.spans[i].con[d.dir] = RC_NOT_CONNECTED) <=> (matches = {})
               /\ matches # {} =>
                     chf.spans[i].con[d.dir] = SetMin(matches) - chf.cells[d.column].index

\* C16 witness: a span has two spans of a neighbouring column to step to and
\* is connected to the lower one, the bottom span of that column.
C16_Witness ==
    /\ pc = "compacted"
    /\ \E i \in DOMAIN chf.spans : \E d \in NeighborColumns(chf, i) :
          /\ Cardinality(Connectable(chf, i, d.column)) = 2
          /\ chf.spans[i].con[d.dir] = 0

\* The compact spans the heightfield h is to yield: per column in row-major
\* order and per span with an area bottom-up, the floor, the height up to
\* the next span or MAX_HEIGHT, at most cap, and the area.
HasArea(s) == s.area # RC_NULL_AREA

RECURSIVE Emitted(_, _, _)
Emitted(h, column, cap) ==
    IF column >= h.width * h.height THEN <<>>
    ELSE SelectSeq([k \in 1..Len(h.spans[column]) |->
                      [y |-> h.spans[column][k].smax,
                       h |-> rcMin(Clearance(h.spans[column], k, MAX_HEIGHT), cap),
                       area |-> h.spans[column][k].area]], HasArea)
         \o Emitted(h, column + 1, cap)

CompactedAs(expected) ==
    /\ chf.spanCount = Len(expected)
    /\ DOMAIN chf.spans = 0..(Len(expected) - 1)
    /\ \A i \in DOMAIN chf.spans :
          /\ chf.spans[i].y = expected[i + 1].y
          /\ chf.spans[i].h = expected[i + 1].h
          /\ chf.areas[i] = expected[i + 1].area

\* A filter step leaves the spans of every column in place and in size.
FiltersKeepSpans ==
    [][(\E name \in {"lowHanging", "ledge", "lowHeight"} : FilterStep(name)) =>
          \A col \in DOMAIN hf.spans :
              Geometry(hf'.spans[col]) = Geometry(hf.spans[col])]_vars

---------------------------------------------------------------------------
(* Further claims about the region partitioners, checked under             *)
(* SpecRegions.                                                             *)

\* The spans reached from the spans in S over the span pairs, taken in both
\* directions.
RECURSIVE SpanReach(_, _)
SpanReach(S, pairs) ==
    LET more == ({p[2] : p \in {q \in pairs : q[1] \in S}}
                    \cup {p[1] : p \in {q \in pairs : q[2] \in S}}) \ S
    IN IF more = {} THEN S ELSE SpanReach(S \cup more, pairs)

\* The spans labelled r.
Members(r) == {i \in DOMAIN chf.spans : Label(i) = r}

RegionOneArea(r) ==
    \A i, j \in Members(r) : chf.areas[i] = chf.areas[j]

\* The spans labelled r are connected by the links between them.
RegionConnected(r, links) ==
    SpanReach({CHOOSE i \in Members(r) : TRUE},
              {p \in links : Label(p[1]) = r /\ Label(p[2]) = r}) = Members(r)

RegionsSound(links) ==
    \A r \in PlainLabels : RegionOneArea(r) /\ RegionConnected(r, links)

\* C18: after any of the three partitioners has returned true, the spans that
\* share a non-zero label without the border flag have one area and form one
\* set connected through the connections between spans of that label.
C18_RegionsConnectedOneArea ==
    Partitioned => RegionsSound(LinkPairs)

\* C18 witness: two regions of different areas lie side by side, one of them
\* of several spans.
C18_Witness ==
    /\ Partitioned
    /\ \E p \in LinkPairs :
          /\ Plain(Label(p[1]))
          /\ Plain(Label(p[2]))
          /\ chf.areas[p[1]] # chf.areas[p[2]]
          /\ Cardinality(Members(Label(p[1]))) > 1

\* C19: after rcBuildRegions has returned true with minRegionArea = 0, for any
\* maxDistance and any borderSize, every span with an area carries a non-zero
\* region label.
C19_EveryWalkableSpanLabelled ==
    (Partitioned /\ cfg.partitionType = "watershed" /\ cfg.minRegionArea = 0) =>
        \A i \in DOMAIN chf.spans :
            chf.areas[i] # RC_NULL_AREA => Label(i) # 0

\* The spans at which mergeAndFilterRegions walks a contour under the
\* labelling lab: per region proper, the first span with a solid edge.
WalkStarts(nb, lab) ==
    {i \in DOMAIN chf.spans :
        /\ Plain(lab[i + 1])
        /\ \E dir \in 0..3 : isSolidEdge(nb, lab, i, dir)
        /\ \A j \in 0..(i - 1) :
              lab[j + 1] = lab[i + 1] => \A dir \in 0..3 : ~isSolidEdge(nb, lab, j, dir)}

\* Some contour walk of the postprocessing ended on its iteration counter.
WalkCapped(nb, lab) ==
    \E i \in WalkStarts(nb, lab) :
        LET dir == SetMin({d \in 0..3 : isSolidEdge(nb, lab, i, d)})
            curReg == RegionAcross(nb, lab, i, dir)
        IN WalkLoop(nb, lab, i, dir, WalkEntry(i, dir, curReg, <<curReg>>),
                    rcMin(WalkCap, MaxWalkIterations)).capped

\* C20: when a contour walk of the postprocessing of rcBuildRegions or
\* rcBuildRegionsMonotone reaches its iteration cap without coming back to
\* its start, an error is logged and the partitioner returns false.
C20_CappedWalkFails ==
    (/\ pc = "regions"
     /\ cfg.partitionType \in {"watershed", "monotone"}
     /\ WalkCapped(LinkTable(chf, 0), preReg))
        => (ret = FALSE /\ log # {})

---------------------------------------------------------------------------
(* Claims about the region IDs of the watershed, checked under SpecFlood.  *)

\* C21: a kept flood with a region ID above 0xFFFE ends rcBuildRegions with
\* the overflow error logged and false returned, and rcBuildRegions never
\* returns true with a label above 0xFFFE left by a flood.
C21_OverflowFails ==
    /\ [][(pc = "flooding" /\ preReg' # preReg /\ preReg'[1] > 65534) =>
             /\ pc' = "failed"
             /\ ret' = FALSE
             /\ "rcBuildRegions: Region ID overflow" \in log']_vars
    /\ []((pc = "regions" /\ ret = TRUE) => \A k \in DOMAIN preReg : preReg[k] <= 65534)

\* C21 witness: the flood with regionId = 0xFFFF kept its label and the call
\* has failed with the overflow logged.
C21_Witness ==
    /\ pc = "failed"
    /\ ret = FALSE
    /\ preReg = <<65535>>
    /\ "rcBuildRegions: Region ID overflow" \in log

---------------------------------------------------------------------------
(* Claims about the layer limit of the compaction, checked under           *)
(* SpecCompact.                                                             *)

\* The layer indices, within column `column`, of the spans that span i can
\* step to.
ConnectableLayers(c, i, column) ==
    {k - c.cells[column].index : k \in Connectable(c, i, column)}

\* The directions of span i, with the neighbouring column, in which every
\* span that span i can step to has a layer index above MAX_LAYERS.
OnlyHighLayers(c, i) ==
    LET column == ColumnOf(c.cells, i)
    IN {d \in [dir : 0..3, column : DOMAIN c.cells] :
          LET nx == (column % c.width) + rcGetDirOffsetX(d.dir)
              nz == (column \div c.width) + rcGetDirOffsetY(d.dir)
          IN /\ nx >= 0 /\ nz >= 0 /\ nx < c.width /\ nz < c.height
             /\ d.column = nx + nz * c.width
             /\ ConnectableLayers(c, i, d.column) # {}
             /\ \A layer \in ConnectableLayers(c, i, d.column) : layer > MAX_LAYERS}

\* C22: when all the spans that a span can step to in a direction have a
\* layer index above 62, rcBuildCompactHeightfield logs the error, leaves the
\* direction RC_NOT_CONNECTED and returns true.
C22_HighLayersUnconnected ==
    pc = "compacted" =>
        \A i \in DOMAIN chf.spans : \A d \in OnlyHighLayers(chf, i) :
            /\ chf.spans[i].con[d.dir] = RC_NOT_CONNECTED
            /\ "rcBuildCompactHeightfield: Heightfield has too many layers" \in log
            /\ ret = TRUE

\* C22 witness: a span can step to the spans of layers 64 and 65 of the
\* neighbouring column and to no other, and is not connected.
C22_Witness ==
    /\ pc = "compacted"
    /\ ret = TRUE
    /\ log # {}
    /\ \E i \in DOMAIN chf.spans : \E d \in OnlyHighLayers(chf, i) :
          /\ ConnectableLayers(chf, i, d.column) = {MAX_LAYERS + 2, MAX_LAYERS + 3}
          /\ chf.spans[i].con[d.dir] = RC_NOT_CONNECTED

---------------------------------------------------------------------------
(* Claims about the area marking and the partitioning, checked under        *)
(* SpecAreas.                                                               *)

\* Span i lies in a column that is not on the edge of the grid.
InteriorSpan(i) ==
    LET column == ColumnOf(chf.cells, i)
    IN /\ column % chf.width \in 1..(chf.width - 2)
       /\ column \div chf.width \in 1..(chf.height - 2)

\* The field of FieldSize x FieldSize columns, eroded once.
ErodedField ==
    /\ pc \in {"eroded", "distance", "regions"}
    /\ hf.width = FieldSize
    /\ stages = <<"erosion">>

\* C23: on the flat walkable 10x10 field with walkableRadius = 1, borderSize
\* = 0, minRegionArea = 1 and mergeRegionArea = 1, erosion leaves exactly the
\* 8x8 interior walkable, and each of rcBuildRegions (after
\* rcBuildDistanceField), rcBuildRegionsMonotone and rcBuildLayerRegions gives
\* the 64 interior spans one and the same non-zero label and no other span a
\* label.
C23_InteriorIsOneRegion ==
    ErodedField =>
        /\ chf.spanCount = FieldSize * FieldSize
        /\ \A i \in DOMAIN chf.spans :
              chf.areas[i] # RC_NULL_AREA <=> InteriorSpan(i)
        /\ Cardinality({i \in DOMAIN chf.spans : InteriorSpan(i)})
              = (FieldSize - 2) * (FieldSize - 2)
        /\ pc = "regions" =>
              /\ ret = TRUE
              /\ ub = {}
              /\ \E r \in 1..65535 :
                    \A i \in DOMAIN chf.spans :
                        chf.spans[i].reg = IF InteriorSpan(i) THEN r ELSE 0

\* C23 witness: rcBuildRegions has returned on the eroded field, whose
\* distance field rises from the edge of the interior to its centre, with a
\* label on some span.
C23_Witness ==
    /\ ErodedField
    /\ pc = "regions"
    /\ cfg.partitionType = "watershed"
    /\ chf.maxDistance > 2
    /\ \E i \in DOMAIN chf.spans : chf.spans[i].reg # 0



\* C24: rcMarkBoxArea, rcMarkCylinderArea, rcMarkConvexPolyArea and
\* rcMedianFilterWalkableArea never change the area of a compact span whose
\* area is null before the call.
C24_NullAreaStaysNull ==
    [][(\E name \in {"markBox", "markCylinder", "markConvexPoly", "median"} :
            FilterStep(name)) =>
          \A i \in DOMAIN chf.areas :
              chf.areas[i] = RC_NULL_AREA => chf'.areas[i] = RC_NULL_AREA]_vars

\* C24 witness: after an erosion, the marking of a volume that holds column
\* (0, 0) with a new area and the median filter, the span of column (0, 0),
\* nulled by the erosion, is still null next to spans of the new area.
C24_Witness ==
    /\ pc = "eroded"
    /\ Len(stages) = 3
    /\ stages[1] = "erosion"
    /\ stages[2] \in {"markBox", "markCylinder", "markConvexPoly"}
    /\ stages[3] = "median"
    /\ chf.cells[0].count = 1
    /\ chf.areas[chf.cells[0].index] = RC_NULL_AREA
    /\ \E i \in DOMAIN chf.areas : chf.areas[i] = 1


\* C25: in rcBuildRegionsMonotone and rcBuildLayerRegions every index into
\* sweeps[] is less than max(width, height), the size of the array, for every
\* compact heightfield: no run writes past the array.
C25_SweepIndicesInBounds == "sweeps" \notin ub


\* C26: floodRegion unlabels a span only for a neighbour of the same area
\* that carries a non-zero label other than the flood's own and without the
\* border flag: the label ar that makes it unlabel a span never has the flag,
\* whether it was met on an orthogonal or on a diagonal neighbour.
C26_BorderNeverUnlabels ==
    \A p \in DOMAIN levels : \A k \in DOMAIN levels[p].unlabelled :
        /\ levels[p].unlabelled[k].ar # 0
        /\ levels[p].unlabelled[k].ar # levels[p].unlabelled[k].r
        /\ ~HasBorderFlag(levels[p].unlabelled[k].ar)


\* rcBuildRegions has returned true.
WatershedDone == pc = "regions" /\ ret = TRUE /\ cfg.partitionType = "watershed"

\* The level loop started at `start`: no pass if start is 0, else a first
\* pass at max(0, start - 2).
FirstLevelFrom(start) ==
    IF start = 0 THEN levels = <<>>
    ELSE levels # <<>> /\ levels[1].level = rcMax(0, start - 2)

GatheredRegions ==
    GatherRegions(chf, LinkTable(chf, 0), ColumnTable(chf, 0), preReg, Len(regTable),
                  [i \in 1..Len(regTable) |-> rcRegion(i - 1)] \o <<>>, 0, chf.spanCount)

\* C28: mergeAndFilterRegions merges a region into a neighbour only if its
\* spanCount is below mergeRegionArea or it does not connect to a border: a
\* region of mergeRegionArea spans or more with a null connection keeps its
\* ID through the merge loop.  (A region never loses spans or its null
\* connection before it is merged, so the gathered table decides.)
C28_LargeBorderRegionsKept ==
    (/\ pc = "regions"
     /\ ret = TRUE
     /\ cfg.partitionType \in {"watershed", "monotone"})
        => \A i \in 1..(Len(regTable) - 1) :
              (/\ regTable[i + 1].id # i
               /\ regTable[i + 1].id # 0
               /\ GatheredRegions[i + 1].spanCount >= cfg.mergeRegionArea)
                  => ~isRegionConnectedToBorder(GatheredRegions[i + 1])



MergeLoopRepeats == pc = "merging" /\ locals.passes >= 1

\* The spans reached from span p by following next, at most fuel of them.
RECURSIVE SpansFrom(_, _, _)
SpansFrom(items, p, fuel) ==
    IF p = 0 \/ fuel = 0 THEN <<>>
    ELSE <<p>> \o SpansFrom(items, items[p].next, fuel - 1)

\* The spans of the free list followed by the spans of the columns, each
\* list followed for one span more than the pools hold.
RECURSIVE ColumnSpansFrom(_, _)
ColumnSpansFrom(h, col) ==
    IF col \notin DOMAIN h.spans THEN <<>>
    ELSE SpansFrom(h.items, h.spans[col], Len(h.items) + 1)
         \o ColumnSpansFrom(h, col + 1)

PlacedSpans(h) ==
    SpansFrom(h.items, h.freelist, Len(h.items) + 1) \o ColumnSpansFrom(h, 0)

\* The columns read through the pointers are the chains of hf.
PoolHoldsChains ==
    \A col \in DOMAIN locals.spans :
        LET ptrs == SpansFrom(locals.items, locals.spans[col], Len(locals.items) + 1)
        IN hf.spans[col] = [k \in 1..Len(ptrs) |->
                               [smin |-> locals.items[ptrs[k]].smin,
                                smax |-> locals.items[ptrs[k]].smax,
                                area |-> locals.items[ptrs[k]].area]]

\* C30: after any sequence of addSpan calls every span slot of every pool
\* allocated is in exactly one place, on the free list or in the chain of one
\* column: the free list and the chains end, and together they hold each
\* slot of the pools once.
C30_SpansInOnePlace ==
    /\ Len(locals.items) = Len(locals.pools) * SpansPerPool
    /\ Len(PlacedSpans(locals)) = Len(locals.items)
    /\ {PlacedSpans(locals)[k] : k \in 1..Len(PlacedSpans(locals))}
           = 1..Len(locals.items)

\* C30 witness: a second pool has been allocated with one span of the first
\* still free, a call has merged spans and freed them, and the free list
\* starts with a freed span of the first pool that leads into the second.
C30_Witness ==
    /\ Len(locals.pools) = 2
    /\ ret = TRUE
    /\ locals.freelist \in 1..SpansPerPool
    /\ locals.items[locals.freelist].next > SpansPerPool
    /\ \E col \in DOMAIN locals.spans : locals.spans[col] > SpansPerPool

=========================================================================
